---- MODULE Spec2Model ----
(***************************************************************************)
(* Schema introspection of react-formgen's Zod package: isRequired,        *)
(* isOptional, getDefaultValue, unwrapSchema and generateInitialData.      *)
(*                                                                         *)
(* A schema node is a record holding the fields of its _zod.def: `type`    *)
(* plus innerType / defaultValue / getter / element / checks / shape /     *)
(* options / items / entries / values.  A JavaScript value is a record     *)
(* tagged by `k`; a thrown exception is the outcome Throw.                 *)
(*                                                                         *)
(* Further down: the error lookups of both packages (getErrorsAtPath,      *)
(* getIssuesAtPath; specification IndexSpec) and the render dispatch of    *)
(* both packages with the number and date templates (RenderSpec).          *)
(*                                                                         *)
(* Then the form document: the path accessor of the core package, written  *)
(* from its contract (AccessSpec), and the templates that call it: the     *)
(* array template (ArraySpec; moveItem alone at every index, MoveSpec),    *)
(* the optional object's Add and Remove with the readonly switch           *)
(* (ObjectSpec), the union template with its matching effect (UnionSpec),  *)
(* the form roots' handleSubmit (SubmitSpec) and useIsRequired of the JSON *)
(* Schema package (RequiredSpec).                                          *)
(***************************************************************************)
EXTENDS Integers, Sequences, FiniteSets, TLC

\* ------------------------------------------------------------------ bounds
MaxWrap == 2        \* wrapper layers stacked on a leaf
MaxCompWrap == 1    \* wrapper layers stacked on a composite, enum or literal
MaxMinSize == 2     \* largest declared array minimum size
MaxEnumKeys == 2    \* keys of an enum
MaxCallDepth == 12  \* JavaScript call-stack frames before RangeError

\* ------------------------------------------------------- JavaScript values
Undefined == [k |-> "undefined"]
Null == [k |-> "null"]
Str(s) == [k |-> "string", s |-> s]
List(items) == [k |-> "array", items |-> items]
Obj(entries) == [k |-> "object", entries |-> entries]
\* the outcome of a call that throws
Throw == [k |-> "throw"]

\* Keys that are canonical array indices, in ascending numeric order.
IndexKeys == <<"0", "1", "2">>

IsIndexKey(key) == \E i \in 1..Len(IndexKeys) : IndexKeys[i] = key

KeyIndex(key) == CHOOSE i \in 1..Len(IndexKeys) : IndexKeys[i] = key

\* key a is enumerated before key b when both are index keys and a < b
IndexBefore(a, b) == IsIndexKey(a) /\ IsIndexKey(b) /\ KeyIndex(a) < KeyIndex(b)

HasKey(entries, key) == \E i \in 1..Len(entries) : entries[i][1] = key

\* Position at which a new own property `key` is enumerated: index keys in
\* ascending order ahead of every string key, string keys in insertion order.
InsertPos(entries, key) ==
  IF IsIndexKey(key)
    THEN 1 + Cardinality({i \in 1..Len(entries) : IndexBefore(entries[i][1], key)})
    ELSE Len(entries) + 1

\* faulty variant: a new property is always enumerated last
SetProp_appends(entries, key, value) ==
  IF HasKey(entries, key)
    THEN [i \in 1..Len(entries) |->
            IF entries[i][1] = key THEN <<key, value>> ELSE entries[i]]
    ELSE Append(entries, <<key, value>>)

\* obj[key] = value on a plain object, kept in own-property enumeration order
SetProp(entries, key, value) ==
  IF HasKey(entries, key)
    THEN [i \in 1..Len(entries) |->
            IF entries[i][1] = key THEN <<key, value>> ELSE entries[i]]
    ELSE LET p == InsertPos(entries, key) IN
         SubSeq(entries, 1, p - 1) \o <<<<key, value>>>> \o SubSeq(entries, p, Len(entries))

RECURSIVE FromEntries(_)
\* the plain object an object literal with these properties (in written order)
\* evaluates to
FromEntries(declared) ==
  IF declared = <<>> THEN <<>>
  ELSE LET n == Len(declared) IN
       SetProp(FromEntries(SubSeq(declared, 1, n - 1)), declared[n][1], declared[n][2])

\* Object.entries(shape) / Object.keys(entries) of the object written as `declared`
ObjectEntries(declared) == FromEntries(declared)

ObjectKeys(declared) ==
  LET e == FromEntries(declared) IN [i \in 1..Len(e) |-> e[i][1]]

\* obj[key] (undefined when the key is no own property)
GetProp(declared, key) ==
  IF HasKey(declared, key)
    THEN declared[CHOOSE i \in 1..Len(declared) : declared[i][1] = key][2]
    ELSE Undefined

\* ------------------------------------------------------------ schema nodes
ScalarTypes == {"string", "number", "boolean", "bigint", "date"}

WrapperTypes ==
  {"optional", "nullable", "default", "prefault", "readonly", "nonoptional", "lazy"}

Scalar(t) == [type |-> t]
\* z.null(): a concrete kind generateInitialData has no case for
NullType == [type |-> "null"]
Wrapper(t, inner) == [type |-> t, innerType |-> inner]
\* def.defaultValue: a literal value, or a producer function with its outcome
LiteralDefault(v) == [isFunction |-> FALSE, value |-> v]
ProducerDefault(outcome) == [isFunction |-> TRUE, value |-> outcome]
WithDefault(t, inner, dv) == [type |-> t, innerType |-> inner, defaultValue |-> dv]
\* z.lazy(() => <the schema bound to name>)
Lazy(name) == [type |-> "lazy", getter |-> name]
\* the check z.array(x).min(n) carries
MinLength(n) == [check |-> "min_length", minimum |-> n]
\* the checks z.minSize(n) and z.maxSize(n) make, attached with .check(...)
MinSize(n) == [check |-> "min_size", minimum |-> n]
MaxSize(n) == [check |-> "max_size", maximum |-> n]
ArrayOf(element, checks) == [type |-> "array", element |-> element, checks |-> checks]
\* shape, entries: the properties in the order the schema author wrote them
ObjectOf(shape) == [type |-> "object", shape |-> shape]
UnionOf(options) == [type |-> "union", options |-> options]
TupleOf(items) == [type |-> "tuple", items |-> items]
EnumOf(entries) == [type |-> "enum", entries |-> entries]
LiteralOf(values) == [type |-> "literal", values |-> values]

\* The schemas lazy getters return, by the name of the binding they close over.
LazyNames == {"Str", "Dflt", "OptObj", "Chain", "Loop", "Tree", "OptTree"}

Getter(name) ==
  CASE name = "Str" -> Scalar("string")
    [] name = "Dflt" ->
         WithDefault("default", Scalar("string"), ProducerDefault(Str("d")))
    [] name = "OptObj" ->
         Wrapper("optional", ObjectOf(<<<<"a", Scalar("string")>>>>))
    [] name = "Chain" -> Lazy("Dflt")
    [] name = "Loop" -> Lazy("Loop")
    [] name = "Tree" ->
         ObjectOf(<<<<"a", Scalar("string")>>, <<"b", Lazy("Tree")>>>>)
    [] name = "OptTree" ->
         ObjectOf(<<<<"a", Wrapper("optional", Lazy("OptTree"))>>>>)

RECURSIVE RefsIn(_)
\* the lazy bindings a schema mentions, without calling any getter
RefsIn(schema) ==
  CASE schema.type = "lazy" -> {schema.getter}
    [] schema.type \in WrapperTypes \ {"lazy"} -> RefsIn(schema.innerType)
    [] schema.type = "array" -> RefsIn(schema.element)
    [] schema.type = "object" ->
         UNION {RefsIn(schema.shape[i][2]) : i \in 1..Len(schema.shape)}
    [] schema.type = "union" ->
         UNION {RefsIn(schema.options[i]) : i \in 1..Len(schema.options)}
    [] schema.type = "tuple" ->
         UNION {RefsIn(schema.items[i]) : i \in 1..Len(schema.items)}
    [] OTHER -> {}

RECURSIVE ReachableRefs(_)
ReachableRefs(names) ==
  LET more == names \cup UNION {RefsIn(Getter(n)) : n \in names} IN
  IF more = names THEN names ELSE ReachableRefs(more)

\* no lazy reference leads back to a node that contains it
Acyclic(schema) ==
  \A n \in ReachableRefs(RefsIn(schema)) : n \notin ReachableRefs(RefsIn(Getter(n)))

\* ---------------------------------------------------------- pure utilities
RECURSIVE isRequired(_)
isRequired(schema) ==
  IF schema.type = "optional" THEN FALSE
  ELSE IF schema.type \in {"nullable", "default", "readonly"}
    THEN isRequired(schema.innerType)
  ELSE TRUE

RECURSIVE isOptional_missesOptional(_)
\* faulty variant: the check for an optional layer is lost
isOptional_missesOptional(schema) ==
  IF schema.type \in {"default", "prefault", "nullable", "readonly"}
    THEN isOptional_missesOptional(schema.innerType)
  ELSE FALSE

RECURSIVE isOptional(_)
isOptional(schema) ==
  IF schema.type = "optional" THEN TRUE
  ELSE IF schema.type \in {"default", "prefault", "nullable", "readonly"}
    THEN isOptional(schema.innerType)
  ELSE FALSE

\* defaultValue(): the value the producer returns, or Throw
CallProducer(defaultValue) == defaultValue.value

RECURSIVE getDefaultValue_stopsAtOptional(_)
\* faulty variant: an optional layer is not looked through
getDefaultValue_stopsAtOptional(schema) ==
  IF schema.type \in {"default", "prefault"}
    THEN IF schema.defaultValue.isFunction
           THEN CallProducer(schema.defaultValue)
           ELSE schema.defaultValue.value
  ELSE IF schema.type \in {"nullable", "readonly", "nonoptional"}
    THEN getDefaultValue_stopsAtOptional(schema.innerType)
  ELSE Undefined

RECURSIVE getDefaultValue(_)
\* a value, Undefined when no default is found, or Throw when the producer throws
getDefaultValue(schema) ==
  IF schema.type \in {"default", "prefault"}
    THEN IF schema.defaultValue.isFunction
           THEN CallProducer(schema.defaultValue)
           ELSE schema.defaultValue.value
  ELSE IF schema.type \in {"optional", "nullable", "readonly", "nonoptional"}
    THEN getDefaultValue(schema.innerType)
  ELSE Undefined

\* faulty variant: one layer is peeled and returned, without recursing
unwrapSchema_peelsOnce(schema) ==
  IF schema.type \in {"optional", "nullable", "default", "prefault", "readonly", "nonoptional"}
    THEN schema.innerType
  ELSE IF schema.type = "lazy"
    THEN Getter(schema.getter)
  ELSE schema

RECURSIVE unwrapSchema(_)
\* defined on acyclic schemas; UnwrapStep below takes the same steps one call at a time
unwrapSchema(schema) ==
  IF schema.type \in {"optional", "nullable", "default", "prefault", "readonly", "nonoptional"}
    THEN unwrapSchema(schema.innerType)
  ELSE IF schema.type = "lazy"
    THEN unwrapSchema(Getter(schema.getter))
  ELSE schema

HasMinCheck(checks) == \E i \in 1..Len(checks) : checks[i].check = "min_size"

\* checks.find(check => check._zod.def.check === "min_size")
MinCheck(checks) ==
  LET first == CHOOSE i \in 1..Len(checks) :
                 /\ checks[i].check = "min_size"
                 /\ \A j \in 1..(i - 1) : checks[j].check # "min_size"
  IN checks[first]

\* Array(minSize).fill(elementZeroState)
ArrayFill(minSize, elementZeroState) == [i \in 1..minSize |-> elementZeroState]

\* enumDef.entries[Object.keys(enumDef.entries)[0]]
EnumFirstValue(entries) ==
  IF entries = <<>> THEN Undefined
  ELSE GetProp(entries, ObjectKeys(entries)[1])

\* Array.from(values)[0]
LiteralFirstValue(values) == IF values = <<>> THEN Undefined ELSE values[1]

RECURSIVE generateInitialData(_)
RECURSIVE GenFields(_, _, _)
RECURSIVE GenItems(_, _, _)

\* the loop over Object.entries(shape): absent fields get no entry
GenFields(entries, i, result) ==
  IF i > Len(entries) THEN Obj(result)
  ELSE LET fieldZeroState == generateInitialData(entries[i][2]) IN
       IF fieldZeroState = Throw THEN Throw
       ELSE GenFields(entries, i + 1,
              IF fieldZeroState # Undefined
                THEN SetProp(result, entries[i][1], fieldZeroState)
                ELSE result)

\* items.map(item => generateInitialData(item))
GenItems(items, i, acc) ==
  IF i > Len(items) THEN List(acc)
  ELSE LET itemZeroState == generateInitialData(items[i]) IN
       IF itemZeroState = Throw THEN Throw
       ELSE GenItems(items, i + 1, Append(acc, itemZeroState))

\* defined on acyclic schemas; a value, or Throw when a default producer throws
generateInitialData(schema) ==
  LET defaultValue == getDefaultValue(schema) IN
  IF defaultValue # Undefined THEN defaultValue
  ELSE IF isOptional(schema) THEN Undefined
  ELSE
    LET coreSchema == unwrapSchema(schema) IN
    CASE coreSchema.type \in ScalarTypes -> Undefined
      [] coreSchema.type = "array" ->
           IF HasMinCheck(coreSchema.checks)
             THEN LET elementZeroState == generateInitialData(coreSchema.element) IN
                  IF elementZeroState = Throw THEN Throw
                  ELSE List(ArrayFill(MinCheck(coreSchema.checks).minimum, elementZeroState))
             ELSE List(<<>>)
      [] coreSchema.type = "object" ->
           GenFields(ObjectEntries(coreSchema.shape), 1, <<>>)
      [] coreSchema.type = "union" ->
           IF coreSchema.options # <<>>
             THEN generateInitialData(coreSchema.options[1])
             ELSE Undefined
      [] coreSchema.type = "tuple" -> GenItems(coreSchema.items, 1, <<>>)
      [] coreSchema.type = "enum" -> EnumFirstValue(coreSchema.entries)
      [] coreSchema.type = "literal" -> LiteralFirstValue(coreSchema.values)
      [] coreSchema.type = "lazy" -> generateInitialData(Getter(coreSchema.getter))
      [] OTHER -> Undefined

\* ------------------------------------------------------------ input schemas
DefaultValues ==
  { LiteralDefault(Null), ProducerDefault(Str("d")),
    ProducerDefault(Undefined), ProducerDefault(Throw) }

\* one wrapper layer (lazy layers come from LazyNames) around each schema of S
Wraps(S) ==
  {Wrapper(t, s) : t \in {"optional", "nullable", "readonly", "nonoptional"}, s \in S}
    \cup {WithDefault(t, s, dv) : t \in {"default", "prefault"}, s \in S, dv \in DefaultValues}

RECURSIVE WrapUpTo(_, _)
WrapUpTo(S, n) == IF n = 0 THEN S ELSE S \cup Wraps(WrapUpTo(S, n - 1))

Leaves ==
  {Scalar(t) : t \in ScalarTypes} \cup {NullType} \cup {Lazy(n) : n \in LazyNames}

StringDefaultD == WithDefault("default", Scalar("string"), ProducerDefault(Str("d")))
StringDefaultNull ==
  WithDefault("default", Wrapper("nullable", Scalar("string")), LiteralDefault(Null))
StringDefaultThrows == WithDefault("default", Scalar("string"), ProducerDefault(Throw))

EnumKeyPool == {"b", "0", "1"}

EnumValue(key) ==
  CASE key = "b" -> Str("vb") [] key = "0" -> Str("v0") [] key = "1" -> Str("v1")

\* sequences of distinct elements of S, of length at most n
DistinctSeqs(S, n) ==
  UNION { {q \in [1..m -> S] : \A i, j \in 1..m : i # j => q[i] # q[j]} : m \in 0..n }

SeqsUpTo(S, n) == UNION {[1..m -> S] : m \in 0..n}

Enums ==
  { EnumOf([i \in 1..Len(keys) |-> <<keys[i], EnumValue(keys[i])>>]) :
      keys \in DistinctSeqs(EnumKeyPool, MaxEnumKeys) }

Literals ==
  { LiteralOf(<<Str("x")>>), LiteralOf(<<Null>>), LiteralOf(<<Str("x"), Str("y")>>) }

FieldSchemas ==
  { Scalar("string"), StringDefaultD, StringDefaultNull, StringDefaultThrows,
    Wrapper("optional", Scalar("string")) }

ItemSchemas == { Scalar("string"), StringDefaultD, StringDefaultThrows }

CheckLists ==
  { <<>>, <<MaxSize(3)>> }
    \cup { <<MinSize(n)>> : n \in 0..MaxMinSize }
    \cup { <<MinLength(n)>> : n \in 0..MaxMinSize }
    \cup { <<MaxSize(3), MinSize(n)>> : n \in 0..MaxMinSize }

Arrays ==
  { ArrayOf(e, c) :
      e \in ItemSchemas \cup {ObjectOf(<<<<"a", StringDefaultD>>>>)}, c \in CheckLists }

ShapeKeys == DistinctSeqs({"a", "1"}, 2)

\* objects of up to two fields, and three-field objects declared as b, a, 1
Objects ==
  UNION { { ObjectOf([i \in 1..Len(keys) |-> <<keys[i], fs[i]>>]) :
              fs \in [1..Len(keys) -> FieldSchemas] } : keys \in ShapeKeys }
    \cup { ObjectOf(<<<<"b", fs[1]>>, <<"a", fs[2]>>, <<"1", fs[3]>>>>) :
             fs \in [1..3 -> {Scalar("string"), StringDefaultD, StringDefaultNull}] }

Tuples == { TupleOf(items) : items \in SeqsUpTo(ItemSchemas, 2) }

Unions ==
  { UnionOf(options) :
      options \in SeqsUpTo(ItemSchemas \cup {Wrapper("optional", Scalar("string"))}, 2) }

\* composites whose members are themselves composites, enums or lazy references
Nested ==
  LET members ==
        { ObjectOf(<<<<"b", StringDefaultD>>, <<"a", Scalar("string")>>>>),
          ArrayOf(StringDefaultD, <<MinSize(1)>>),
          TupleOf(<<Scalar("number"), StringDefaultD>>),
          UnionOf(<<LiteralOf(<<Str("x")>>), Scalar("string")>>),
          EnumOf(<<<<"b", EnumValue("b")>>, <<"1", EnumValue("1")>>>>),
          NullType, Lazy("Dflt"), Lazy("OptObj"), Lazy("Tree") }
  IN { ObjectOf(<<<<"a", m>>, <<"b", StringDefaultD>>>>) : m \in members }
       \cup { ArrayOf(m, <<MinSize(2)>>) : m \in members }
       \cup { TupleOf(<<m, m>>) : m \in members }
       \cup { UnionOf(<<m>>) : m \in members }

Composites == Enums \cup Literals \cup Arrays \cup Objects \cup Tuples \cup Unions \cup Nested

Schemas == WrapUpTo(Leaves, MaxWrap) \cup WrapUpTo(Composites, MaxCompWrap)

\* -------------------------------------------------------------------- state
MaxSegments == 2    \* segments of a path into the form document
MaxItems == 2       \* elements of the array a template starts with
MaxAdds == 2        \* addItem calls in one behaviour
MaxOptions == 2     \* options of a union
MaxSubmits == 2     \* submits of the form in one behaviour

VARIABLES
  node,      \* the schema the caller holds
  fn,        \* the function the caller invoked, "none" before any call
  pc,        \* "idle", "run", "done", "thrown" (exception), "overflow" (RangeError)
  stack,     \* active generateInitialData / unwrapSchema invocations, innermost last
  ret,       \* <<v>> while a callee's return value awaits its caller, else <<>>
  result,    \* what the call returned
  branch,    \* the return statement the caller's call returned from
  required,  \* <<b>> once isRequired(node) returned b
  optional,  \* <<b>> once isOptional(node) returned b
  log,       \* console.error diagnostics: unsupported type names, error messages
  adapter,   \* the package whose lookup the form was created with, "none" before
  errors,    \* the validation errors handed to the lookup
  path,      \* the path handed to the lookup
  errorMap,  \* the errorMap getErrorsAtPath built
  found,     \* what the lookup returned
  jsonSchema, \* the JSON Schema node handed to RenderTemplate (Zod nodes are in `node`)
  rendered,  \* what RenderTemplate returned: the template and the schema prop it got
  editor,    \* what the template chosen returned: the editor it selected
  doc,       \* the form document the store holds
  op,        \* the accessor call made last: its name, arguments and outcome
  tally,     \* the array's first length and the addItem / removeItem calls since
  selected,  \* selectedOptionIndex of the union template
  pending,   \* whether the union template's effect is yet to run for the value
  validationState, \* validationState of the form root
  stored,    \* state.errors of the store: null or the issue list set last
  submits,   \* the submits triggered, in order: the data each validates and its stage
  calls      \* the onSubmit / onError calls made, in order

utilVars == <<node, fn, pc, stack, ret, result, branch, required, optional, log>>

indexVars == <<errors, path, errorMap, found>>

renderVars == <<jsonSchema, rendered, editor>>

docVars == <<doc, op, tally>>

uiVars == <<selected, pending, validationState, stored, submits, calls>>

laterVars == <<docVars, uiVars>>

formVars == <<adapter, indexVars, renderVars, laterVars>>

vars == <<utilVars, formVars>>

NoResult == [k |-> "none"]

\* one invocation: `schema` its argument, `core` the node unwrapSchema is at,
\* `depth` the unwrapSchema calls nested in it, `i`/`acc` the loop of an object or tuple
Frame(schema, phase) ==
  [schema |-> schema, phase |-> phase, core |-> schema, depth |-> 0, i |-> 0, acc |-> <<>>]

Top == stack[Len(stack)]

\* no form has been created
DocIdle ==
  /\ doc = [k |-> "undefined"]
  /\ op = [name |-> "none"]
  /\ tally = [initial |-> 0, adds |-> 0, removes |-> 0]

\* no template has state and the form root has not been submitted
UiIdle ==
  /\ selected = 0
  /\ pending = FALSE
  /\ validationState = "idle"
  /\ stored = [k |-> "null"]
  /\ submits = <<>>
  /\ calls = <<>>

FormIdle ==
  /\ DocIdle
  /\ UiIdle
  /\ adapter = "none"
  /\ errors = <<>>
  /\ path = <<>>
  /\ errorMap = <<>>
  /\ found = NoResult
  /\ jsonSchema = NoResult
  /\ rendered = NoResult
  /\ editor = NoResult

Init ==
  /\ node \in Schemas
  /\ fn = "none"
  /\ pc = "idle"
  /\ stack = <<>>
  /\ ret = <<>>
  /\ result = NoResult
  /\ branch = "none"
  /\ required = <<>>
  /\ optional = <<>>
  /\ log = <<>>
  /\ FormIdle

\* the innermost invocation returns v
Return(v, how) ==
  IF Len(stack) = 1
    THEN /\ pc' = "done"
         /\ result' = v
         /\ branch' = how
         /\ stack' = <<>>
         /\ ret' = <<>>
    ELSE /\ stack' = SubSeq(stack, 1, Len(stack) - 1)
         /\ ret' = <<v>>
         /\ UNCHANGED <<pc, result, branch>>

\* an exception unwinds every invocation: no frame catches
Unwind(how) ==
  /\ pc' = how
  /\ stack' = <<>>
  /\ ret' = <<>>
  /\ UNCHANGED <<result, branch>>

\* the innermost invocation, now `frame`, calls generateInitialData(schema)
Call(frame, schema) ==
  IF Len(stack) + 1 > MaxCallDepth
    THEN Unwind("overflow")
    ELSE /\ stack' = Append([stack EXCEPT ![Len(stack)] = frame], Frame(schema, "enter"))
         /\ ret' = <<>>
         /\ UNCHANGED <<pc, result, branch>>

\* the innermost invocation goes on as `frame`
Goto(frame) ==
  /\ stack' = [stack EXCEPT ![Len(stack)] = frame]
  /\ ret' = <<>>
  /\ UNCHANGED <<pc, result, branch>>

CallIsRequired ==
  /\ pc = "idle" /\ required = <<>>
  /\ required' = <<isRequired(node)>>
  /\ UNCHANGED <<formVars, node, fn, pc, stack, ret, result, branch, optional, log>>

CallIsOptional ==
  /\ pc = "idle" /\ optional = <<>>
  /\ optional' = <<isOptional(node)>>
  /\ UNCHANGED <<formVars, node, fn, pc, stack, ret, result, branch, required, log>>

Fresh == pc = "idle" /\ required = <<>> /\ optional = <<>>

CallGetDefaultValue ==
  /\ Fresh
  /\ fn' = "getDefaultValue"
  /\ LET v == getDefaultValue(node) IN
       IF v = Throw
         THEN pc' = "thrown" /\ UNCHANGED result
         ELSE pc' = "done" /\ result' = v
  /\ UNCHANGED <<formVars, node, stack, ret, branch, required, optional, log>>

CallUnwrapSchema ==
  /\ Fresh
  /\ fn' = "unwrapSchema"
  /\ pc' = "run"
  /\ stack' = <<Frame(node, "unwrap")>>
  /\ UNCHANGED <<formVars, node, ret, result, branch, required, optional, log>>

CallGenerateInitialData ==
  /\ Fresh
  /\ fn' = "generateInitialData"
  /\ pc' = "run"
  /\ stack' = <<Frame(node, "enter")>>
  /\ UNCHANGED <<formVars, node, ret, result, branch, required, optional, log>>

\* faulty variant: the optional check of lines 32-40 is left out
Enter_ignoresOptional ==
  /\ pc = "run" /\ Top.phase = "enter"
  /\ LET defaultValue == getDefaultValue(Top.schema) IN
       IF defaultValue = Throw THEN Unwind("thrown")
       ELSE IF defaultValue # Undefined THEN Return(defaultValue, "default")
       ELSE Goto([Top EXCEPT !.phase = "unwrap"])
  /\ UNCHANGED <<formVars, node, fn, required, optional, log>>

\* generateInitialData, from its entry to the call of unwrapSchema
Enter ==
  /\ pc = "run" /\ Top.phase = "enter"
  /\ LET defaultValue == getDefaultValue(Top.schema) IN
       IF defaultValue = Throw THEN Unwind("thrown")
       ELSE IF defaultValue # Undefined THEN Return(defaultValue, "default")
       ELSE IF isOptional(Top.schema) THEN Return(Undefined, "optional")
       ELSE Goto([Top EXCEPT !.phase = "unwrap"])
  /\ UNCHANGED <<formVars, node, fn, required, optional, log>>

\* one invocation of unwrapSchema, on Top.core
UnwrapStep ==
  /\ pc = "run" /\ Top.phase = "unwrap"
  /\ LET def == Top.core IN
       IF def.type \in WrapperTypes
         THEN IF Len(stack) + Top.depth + 1 > MaxCallDepth
                THEN Unwind("overflow")
                ELSE Goto([Top EXCEPT
                             !.core = IF def.type = "lazy"
                                        THEN Getter(def.getter)
                                        ELSE def.innerType,
                             !.depth = @ + 1])
         ELSE IF fn = "unwrapSchema"
                THEN Return(def, "unwrapped")
                ELSE Goto([Top EXCEPT !.phase = "switch", !.depth = 0])
  /\ UNCHANGED <<formVars, node, fn, required, optional, log>>

IsUnsupported(type) ==
  type \notin ScalarTypes \cup {"array", "object", "union", "tuple", "enum", "literal", "lazy"}

\* the switch over the core schema's type
Switch ==
  /\ pc = "run" /\ Top.phase = "switch"
  /\ LET def == Top.core IN
       CASE def.type \in ScalarTypes -> Return(Undefined, "switch")
         [] def.type = "array" ->
              IF HasMinCheck(def.checks)
                THEN Call([Top EXCEPT !.phase = "array"], def.element)
                ELSE Return(List(<<>>), "switch")
         [] def.type = "object" -> Goto([Top EXCEPT !.phase = "object", !.i = 1])
         [] def.type = "union" ->
              IF def.options # <<>>
                THEN Call([Top EXCEPT !.phase = "tail"], def.options[1])
                ELSE Return(Undefined, "switch")
         [] def.type = "tuple" -> Goto([Top EXCEPT !.phase = "tuple", !.i = 1])
         [] def.type = "enum" -> Return(EnumFirstValue(def.entries), "switch")
         [] def.type = "literal" -> Return(LiteralFirstValue(def.values), "switch")
         [] def.type = "lazy" -> Call([Top EXCEPT !.phase = "tail"], Getter(def.getter))
         [] OTHER -> Return(Undefined, "switch")
  /\ log' = IF IsUnsupported(Top.core.type) THEN Append(log, Top.core.type) ELSE log
  /\ UNCHANGED <<formVars, node, fn, required, optional>>

\* Array(minSize).fill(elementZeroState), once the element's zero state is back
ArrayResume ==
  /\ pc = "run" /\ Top.phase = "array" /\ ret # <<>>
  /\ Return(List(ArrayFill(MinCheck(Top.core.checks).minimum, ret[1])), "switch")
  /\ UNCHANGED <<formVars, node, fn, required, optional, log>>

\* the object loop: call the next field's generateInitialData, or return the result
ObjectLoop ==
  /\ pc = "run" /\ Top.phase = "object" /\ ret = <<>>
  /\ LET entries == ObjectEntries(Top.core.shape) IN
       IF Top.i > Len(entries)
         THEN Return(Obj(Top.acc), "switch")
         ELSE Call(Top, entries[Top.i][2])
  /\ UNCHANGED <<formVars, node, fn, required, optional, log>>

\* if (fieldZeroState !== undefined) result[key] = fieldZeroState
ObjectResume ==
  /\ pc = "run" /\ Top.phase = "object" /\ ret # <<>>
  /\ LET key == ObjectEntries(Top.core.shape)[Top.i][1] IN
       Goto([Top EXCEPT
               !.acc = IF ret[1] # Undefined THEN SetProp(@, key, ret[1]) ELSE @,
               !.i = @ + 1])
  /\ UNCHANGED <<formVars, node, fn, required, optional, log>>

\* items.map: call the next item's generateInitialData, or return the list
TupleLoop ==
  /\ pc = "run" /\ Top.phase = "tuple" /\ ret = <<>>
  /\ IF Top.i > Len(Top.core.items)
       THEN Return(List(Top.acc), "switch")
       ELSE Call(Top, Top.core.items[Top.i])
  /\ UNCHANGED <<formVars, node, fn, required, optional, log>>

TupleResume ==
  /\ pc = "run" /\ Top.phase = "tuple" /\ ret # <<>>
  /\ Goto([Top EXCEPT !.acc = Append(@, ret[1]), !.i = @ + 1])
  /\ UNCHANGED <<formVars, node, fn, required, optional, log>>

\* return generateInitialData(firstOption): the callee's value is the caller's
TailResume ==
  /\ pc = "run" /\ Top.phase = "tail" /\ ret # <<>>
  /\ Return(ret[1], "switch")
  /\ UNCHANGED <<formVars, node, fn, required, optional, log>>

Step ==
  \/ Enter \/ UnwrapStep \/ Switch \/ ArrayResume
  \/ ObjectLoop \/ ObjectResume \/ TupleLoop \/ TupleResume \/ TailResume

Next ==
  \/ CallIsRequired \/ CallIsOptional \/ CallGetDefaultValue
  \/ CallUnwrapSchema \/ CallGenerateInitialData
  \/ Step

Spec == Init /\ [][Next]_vars

\* JavaScript runs a started call to its end
FairSpec == Spec /\ WF_vars(Step)

\* ============================================================ error lookups
\* A JavaScript string is the sequence of its characters here, so that split, join
\* and template literals are computed character by character.
MaxErrors == 2      \* errors of one validation pass
MaxPathLen == 1     \* segments of the instance path an error is reported at

RECURSIVE Join(_, _)
\* Array.prototype.join
Join(parts, sep) ==
  IF parts = <<>> THEN <<>>
  ELSE IF Len(parts) = 1 THEN parts[1]
  ELSE parts[1] \o sep \o Join(Tail(parts), sep)

RECURSIVE Split(_, _)
\* String.prototype.split on a one-character separator
Split(str, sep) ==
  IF str = <<>> THEN << <<>> >>
  ELSE LET rest == Split(Tail(str), sep) IN
       IF Head(str) = sep
         THEN << <<>> >> \o rest
         ELSE << <<Head(str)>> \o rest[1] >> \o Tail(rest)

\* Array.prototype.slice(start)
Slice(list, start) == SubSeq(list, start + 1, Len(list))

RECURSIVE ToDecimal(_)
\* String(n) of a non-negative integer
ToDecimal(n) ==
  LET digit(d) == <<"0", "1", "2", "3", "4", "5", "6", "7", "8", "9">>[d + 1] IN
  IF n < 10 THEN <<digit(n)>> ELSE ToDecimal(n \div 10) \o <<digit(n % 10)>>

\* ---- Ajv errors
RequiredError(instancePath, missingProperty) ==
  [instancePath |-> instancePath, keyword |-> "required",
   params |-> [missingProperty |-> missingProperty]]

TypeError(instancePath) ==
  [instancePath |-> instancePath, keyword |-> "type", params |-> [type |-> "string"]]

\* the instance path Ajv reports for the value at `segments`: a JSON pointer
\* (the property names used here hold no "/" and no "~", which a pointer escapes)
InstancePath(segments) ==
  IF segments = <<>> THEN <<>>
  ELSE <<"/">> \o Join(segments, <<"/">>)

\* the key an error is filed under
FullPath(error) ==
  IF error.instancePath # <<>>
    THEN <<"/">> \o Join(Slice(Split(error.instancePath, "/"), 1), <<"/">>)
    ELSE <<"/">>

MissingPath(error) ==
  LET fullPath == FullPath(error) IN
  IF error.keyword = "required"
    THEN (IF fullPath = <<"/">> THEN <<>> ELSE fullPath)
           \o <<"/">> \o error.params.missingProperty
    ELSE fullPath

\* errorMap is a sequence of <<key, bucket>> in insertion order
HasBucket(map, key) == \E i \in 1..Len(map) : map[i][1] = key

BucketIndex(map, key) == CHOOSE i \in 1..Len(map) : map[i][1] = key

\* faulty variant: a second error of a key replaces the bucket
PushError_overwrites(map, key, error) ==
  IF HasBucket(map, key)
    THEN [map EXCEPT ![BucketIndex(map, key)] = <<key, <<error>>>>]
    ELSE Append(map, <<key, <<error>>>>)

\* errorMap[key] = errorMap[key] || []; errorMap[key].push(error)
PushError(map, key, error) ==
  IF HasBucket(map, key)
    THEN [map EXCEPT ![BucketIndex(map, key)] = <<key, Append(@[2], error)>>]
    ELSE Append(map, <<key, <<error>>>>)

RECURSIVE BuildErrorMap(_, _, _)
\* errors.forEach(...) from the i-th error on
BuildErrorMap(errs, i, map) ==
  IF i > Len(errs) THEN map
  ELSE BuildErrorMap(errs, i + 1, PushError(map, MissingPath(errs[i]), errs[i]))

\* errorMap[key] || []
BucketOrEmpty(map, key) ==
  IF HasBucket(map, key) THEN List(map[BucketIndex(map, key)][2]) ELSE List(<<>>)

getErrorsAtPath(errs, p) ==
  LET map == BuildErrorMap(errs, 1, <<>>)
      fullPath == <<"/">> \o Join(p, <<"/">>)
  IN  BucketOrEmpty(map, fullPath)

\* ---- Zod issues
StringKey(chars) == [key |-> "string", chars |-> chars]
NumberKey(n) == [key |-> "number", n |-> n]

\* String(key)
KeyToString(key) == IF key.key = "number" THEN ToDecimal(key.n) ELSE key.chars

ZodIssue(issuePath) == [code |-> "invalid_type", path |-> issuePath]

IssuePathString(issue) ==
  Join([i \in 1..Len(issue.path) |-> KeyToString(issue.path[i])], <<".">>)

getIssuesAtPath(issues, p) ==
  LET pathStr == Join(p, <<".">>)
      matches(issue) == IssuePathString(issue) = pathStr
      matchingIssues == SelectSeq(issues, matches)
  IN  IF Len(matchingIssues) > 0 THEN List(matchingIssues) ELSE Undefined

\* ---- inputs
PropertyNames == {<<"a">>, <<>>}

AjvErrors ==
  LET at == {InstancePath(segments) : segments \in SeqsUpTo(PropertyNames, MaxPathLen)} IN
  {TypeError(p) : p \in at} \cup
  {RequiredError(p, k) : p \in at, k \in PropertyNames}

IssueKeys == {StringKey(<<"a">>), NumberKey(0)}

ZodIssues == {ZodIssue(p) : p \in SeqsUpTo(IssueKeys, MaxPathLen + 1)}

\* the paths a template looks errors up at
LookupPaths(a) ==
  IF a = "json-schema"
    THEN SeqsUpTo(PropertyNames, MaxPathLen + 1)
    ELSE SeqsUpTo({<<"a">>, <<"0">>}, MaxPathLen + 1)

\* no utility call has been made
NoCall ==
  /\ fn = "none"
  /\ pc = "idle"
  /\ stack = <<>>
  /\ ret = <<>>
  /\ result = NoResult
  /\ branch = "none"
  /\ required = <<>>
  /\ optional = <<>>
  /\ log = <<>>

\* no utility call is under way
UtilIdle ==
  /\ node = Scalar("string")
  /\ NoCall

IndexInit ==
  /\ UtilIdle
  /\ DocIdle
  /\ UiIdle
  /\ adapter \in {"json-schema", "zod"}
  /\ errors \in SeqsUpTo(IF adapter = "json-schema" THEN AjvErrors ELSE ZodIssues, MaxErrors)
  /\ path \in LookupPaths(adapter)
  /\ errorMap = <<>>
  /\ found = NoResult
  /\ jsonSchema = NoResult
  /\ rendered = NoResult
  /\ editor = NoResult

\* useErrorsAtPath of the JSON Schema package
CallGetErrorsAtPath ==
  /\ adapter = "json-schema" /\ found = NoResult
  /\ errorMap' = BuildErrorMap(errors, 1, <<>>)
  /\ found' = getErrorsAtPath(errors, path)
  /\ UNCHANGED <<utilVars, renderVars, laterVars, adapter, errors, path>>

\* useErrorsAtPath of the Zod package
CallGetIssuesAtPath ==
  /\ adapter = "zod" /\ found = NoResult
  /\ found' = getIssuesAtPath(errors, path)
  /\ UNCHANGED <<utilVars, renderVars, laterVars, adapter, errors, path, errorMap>>

IndexNext == CallGetErrorsAtPath \/ CallGetIssuesAtPath

IndexSpec == IndexInit /\ [][IndexNext]_vars

\* =========================================================== render dispatch
MaxTypes == 3       \* members of a JSON Schema `type` array

\* an optional JavaScript value: <<>> when undefined, <<v>> when v
Absent == <<>>
Present(v) == <<v>>

\* what a component returned: the element it rendered and that element's schema prop
Rendered(element, props) == [element |-> element, schema |-> props]

\* what a render call came to: its return value and its console.error calls
Outcome(element, props, diagnostics) ==
  [rendered |-> Rendered(element, props), diagnostics |-> diagnostics]

Includes(list, x) == \E i \in 1..Len(list) : list[i] = x

\* ---- JSON Schema package
TypeName(name) == [name |-> name]
TypeList(list) == [list |-> list]
NoType == [absent |-> TRUE]

JsonSchema(type, component, minimum, maximum, enum) ==
  [type |-> type, ref |-> Absent, uiSchema |-> component,
   minimum |-> minimum, maximum |-> maximum, enum |-> enum]

Ref(name) ==
  [type |-> NoType, ref |-> Present(name), uiSchema |-> Absent,
   minimum |-> Absent, maximum |-> Absent, enum |-> FALSE]

\* what resolveSchema does with a schema it cannot resolve, an undefined one
\* or a $ref with no definition: it throws, returns undefined, or returns the
\* schema it was given. Its callers do not decide which.
ResolveVariants == {"throws", "undefined", "unresolved"}

\* resolveSchema(schema, definitions) as its callers rely on it: a schema with
\* no $ref is returned; the definitions of the model resolve no $ref
resolveSchema(schema, variant) ==
  IF schema # Undefined /\ schema.ref = Absent THEN schema
  ELSE CASE variant = "throws" -> Throw
         [] variant = "undefined" -> Undefined
         [] OTHER -> schema

\* schema.type.find((t) => t !== "null")
FindNonNull(types) ==
  types[CHOOSE i \in 1..Len(types) :
          types[i] # "null" /\ \A j \in 1..(i - 1) : types[j] = "null"]

\* the switch over a single schema.type
JsonSwitch(schema) ==
  LET type == IF schema.type = NoType THEN "undefined" ELSE schema.type.name IN
  CASE type = "string" -> Outcome("StringTemplate", schema, <<>>)
    [] type \in {"integer", "number"} -> Outcome("NumberTemplate", schema, <<>>)
    [] type = "boolean" -> Outcome("BooleanTemplate", schema, <<>>)
    [] type = "null" -> Outcome("input", NoResult, <<>>)
    [] type = "object" -> Outcome("ObjectTemplate", schema, <<>>)
    [] type = "array" -> Outcome("ArrayTemplate", schema, <<>>)
    [] OTHER -> Outcome("div", NoResult, <<"Unsupported schema type">>)

RECURSIVE JsonRenderTemplate(_, _)
\* reading schema.type of an undefined schema, past the try, is a TypeError of
\* the component
JsonRenderTemplate(schema, variant) ==
  LET resolved == resolveSchema(schema, variant) IN
  IF resolved = Throw
    THEN Outcome("div", NoResult, <<"Error resolving schema">>)
  ELSE IF resolved = Undefined
    THEN Outcome("TypeError", NoResult, <<>>)
  ELSE IF "list" \in DOMAIN resolved.type
    THEN LET types == resolved.type.list IN
         IF /\ Len(types) = 2
            /\ Includes(types, "null")
            /\ \/ Includes(types, "string")
               \/ Includes(types, "number")
               \/ Includes(types, "boolean")
               \/ Includes(types, "integer")
           THEN JsonRenderTemplate([resolved EXCEPT !.type = TypeName(FindNonNull(types))],
                                   variant)
           ELSE Outcome("div", NoResult, <<"Unsupported union type">>)
  ELSE JsonSwitch(resolved)

\* BaseNumberTemplate of the JSON Schema templates
JsonBaseNumberTemplate(schema) ==
  IF /\ schema.uiSchema = Present("range")
     /\ schema.minimum # Absent
     /\ schema.maximum # Absent
    THEN "RangeNumberTemplate"
  ELSE IF schema.enum THEN "SelectTemplate"
  ELSE "InputTemplate"

\* ---- Zod package
RECURSIVE UnwrapOverflows(_, _)
\* unwrapSchema comes back to a lazy binding it is resolving: RangeError
UnwrapOverflows(schema, resolving) ==
  IF schema.type = "lazy"
    THEN \/ schema.getter \in resolving
         \/ UnwrapOverflows(Getter(schema.getter), resolving \cup {schema.getter})
  ELSE IF schema.type \in WrapperTypes
    THEN UnwrapOverflows(schema.innerType, resolving)
  ELSE FALSE

\* the switch over the core schema's type; the template gets the node as it came
ZodSwitch(def, schema) ==
  CASE def.type = "string" -> Outcome("StringTemplate", schema, <<>>)
    [] def.type = "number" -> Outcome("NumberTemplate", schema, <<>>)
    [] def.type = "boolean" -> Outcome("BooleanTemplate", schema, <<>>)
    [] def.type = "bigint" -> Outcome("BigIntTemplate", schema, <<>>)
    [] def.type = "date" -> Outcome("DateTemplate", schema, <<>>)
    [] def.type = "object" -> Outcome("ObjectTemplate", schema, <<>>)
    [] def.type = "array" -> Outcome("ArrayTemplate", schema, <<>>)
    [] def.type = "enum" -> Outcome("EnumTemplate", schema, <<>>)
    [] def.type = "union" -> Outcome("UnionTemplate", schema, <<>>)
    [] def.type = "tuple" -> Outcome("TupleTemplate", schema, <<>>)
    [] OTHER -> Outcome("null", NoResult, <<"Unsupported schema type">>)

\* faulty variant: the switch is over the node itself
ZodRenderTemplate_keepsWrappers(schema) == ZodSwitch(schema, schema)

ZodRenderTemplate(schema) ==
  IF UnwrapOverflows(schema, {})
    THEN Outcome("RangeError", NoResult, <<>>)
    ELSE LET coreSchema == unwrapSchema(schema) IN ZodSwitch(coreSchema, schema)

\* a number or date node with its _zod.bag and with what its meta() returns
Annotated(type, minimum, maximum, meta) ==
  [type |-> type, bag |-> [minimum |-> minimum, maximum |-> maximum], meta |-> meta]

\* a wrapper with what its own meta() returns
AnnotatedWrapper(type, innerType, meta) ==
  [type |-> type, innerType |-> innerType, meta |-> meta]

Metadata(component) == [uiSchema |-> component]

\* getMetadata of utils/metadata.ts: whatever meta() returns
getMetadata(schema) ==
  IF "meta" \in DOMAIN schema THEN schema.meta ELSE Present(Metadata(Absent))

\* getMetadata of the other copy: meta() ?? {}
getMetadataOrEmpty(schema) ==
  IF "meta" \notin DOMAIN schema THEN Present(Metadata(Absent))
  ELSE IF schema.meta = Absent THEN Present(Metadata(Absent))
  ELSE schema.meta

NumberValue(n) == [k |-> "number", n |-> n]
DateValue(t) == [k |-> "date", t |-> t]

\* typeof bag?.minimum === 'number' && typeof bag?.maximum === 'number'
NumberHasMinAndMax(schema) ==
  LET unwrappedSchema == unwrapSchema(schema) IN
  /\ "bag" \in DOMAIN unwrappedSchema
  /\ unwrappedSchema.bag.minimum # Absent /\ unwrappedSchema.bag.minimum[1].k = "number"
  /\ unwrappedSchema.bag.maximum # Absent /\ unwrappedSchema.bag.maximum[1].k = "number"

\* bag?.minimum instanceof Date && bag?.maximum instanceof Date
DateHasMinAndMax(schema) ==
  LET unwrappedSchema == unwrapSchema(schema) IN
  /\ "bag" \in DOMAIN unwrappedSchema
  /\ unwrappedSchema.bag.minimum # Absent /\ unwrappedSchema.bag.minimum[1].k = "date"
  /\ unwrappedSchema.bag.maximum # Absent /\ unwrappedSchema.bag.maximum[1].k = "date"

\* BaseNumberTemplate of the Zod templates, given what getMetadata returned
BaseNumberTemplate(schema, metadata) ==
  IF metadata = Absent THEN "TypeError"
  ELSE IF metadata[1].uiSchema = Present("range") /\ NumberHasMinAndMax(schema)
    THEN "RangeNumberTemplate"
  ELSE IF NumberHasMinAndMax(schema) THEN "RangeNumberTemplate"
  ELSE "NumberInputTemplate"

\* BaseDateTemplate of the Zod templates, given what getMetadata returned
BaseDateTemplate(schema, metadata) ==
  IF metadata = Absent THEN "TypeError"
  ELSE IF metadata[1].uiSchema = Present("range") /\ DateHasMinAndMax(schema)
    THEN "RangeDateTemplate"
  ELSE IF metadata[1].uiSchema = Present("datetime") THEN "DateTimeInputTemplate"
  ELSE IF DateHasMinAndMax(schema) THEN "RangeDateTemplate"
  ELSE "DateInputTemplate"

\* ---- inputs
JsonTypeNames == {"string", "number", "integer", "boolean", "null", "object", "array"}

JsonTypeLists ==
  UNION { {q \in [1..m -> JsonTypeNames] : \A i, j \in 1..m : i # j => q[i] # q[j]} :
            m \in 1..MaxTypes }

JsonTypeValues ==
  {TypeName(t) : t \in JsonTypeNames \cup {"file"}}
    \cup {TypeList(q) : q \in JsonTypeLists}
    \cup {NoType}

JsonSchemas ==
  { JsonSchema(type, component, minimum, maximum, enum) :
      type \in JsonTypeValues,
      component \in {Absent, Present("range"), Present("select")},
      minimum \in {Absent, Present(0)},
      maximum \in {Absent, Present(9)},
      enum \in BOOLEAN }
    \cup {Ref("missing")}

\* z.union([T, z.null()]) and z.union([z.null(), T])
NullableUnions ==
  LET members == {Scalar(t) : t \in {"string", "number", "boolean"}}
                   \cup {ObjectOf(<<<<"a", Scalar("string")>>>>), ArrayOf(Scalar("string"), <<>>)}
  IN  {UnionOf(<<m, NullType>>) : m \in members} \cup {UnionOf(<<NullType, m>>) : m \in members}

MetadataValues ==
  {Absent} \cup
  {Present(Metadata(component)) :
     component \in {Absent, Present("range"), Present("datetime"), Present("number")}}

AnnotatedNodes ==
  {Annotated("number", minimum, maximum, meta) :
     minimum \in {Absent, Present(NumberValue(0))},
     maximum \in {Absent, Present(NumberValue(9))},
     meta \in MetadataValues}
  \cup
  {Annotated("date", minimum, maximum, meta) :
     minimum \in {Absent, Present(DateValue(0))},
     maximum \in {Absent, Present(DateValue(9))},
     meta \in MetadataValues}

AnnotatedWrappers ==
  {AnnotatedWrapper("optional", inner, meta) :
     inner \in AnnotatedNodes, meta \in {Absent, Present(Metadata(Present("range")))}}

RenderNodes == Schemas \cup NullableUnions \cup AnnotatedNodes \cup AnnotatedWrappers

RenderInit ==
  /\ NoCall
  /\ DocIdle
  /\ UiIdle
  /\ adapter \in {"json-schema", "zod"}
  /\ node \in (IF adapter = "zod" THEN RenderNodes ELSE {Scalar("string")})
  /\ jsonSchema \in (IF adapter = "zod" THEN {NoResult} ELSE JsonSchemas)
  /\ errors = <<>>
  /\ path = <<>>
  /\ errorMap = <<>>
  /\ found = NoResult
  /\ rendered = NoResult
  /\ editor = NoResult

\* <RenderTemplate schema={jsonSchema} /> of the JSON Schema package
RenderJsonTemplate ==
  /\ adapter = "json-schema" /\ rendered = NoResult
  /\ \E variant \in ResolveVariants :
       LET outcome == JsonRenderTemplate(jsonSchema, variant) IN
       /\ rendered' = outcome.rendered
       /\ log' = log \o outcome.diagnostics
  /\ UNCHANGED <<node, fn, pc, stack, ret, result, branch, required, optional>>
  /\ UNCHANGED <<adapter, indexVars, laterVars, jsonSchema, editor>>

\* <RenderTemplate schema={node} /> of the Zod package
RenderZodTemplate ==
  /\ adapter = "zod" /\ rendered = NoResult
  /\ LET outcome == ZodRenderTemplate(node) IN
       /\ rendered' = outcome.rendered
       /\ log' = log \o outcome.diagnostics
  /\ UNCHANGED <<node, fn, pc, stack, ret, result, branch, required, optional>>
  /\ UNCHANGED <<adapter, indexVars, laterVars, jsonSchema, editor>>

\* the NumberTemplate of the JSON Schema templates renders
RenderJsonNumber ==
  /\ adapter = "json-schema" /\ rendered # NoResult /\ editor = NoResult
  /\ rendered.element = "NumberTemplate"
  /\ editor' = Rendered(JsonBaseNumberTemplate(rendered.schema), rendered.schema)
  /\ UNCHANGED <<utilVars, adapter, indexVars, laterVars, jsonSchema, rendered>>

\* the NumberTemplate of the Zod templates renders, with either copy of getMetadata
RenderZodNumber ==
  /\ adapter = "zod" /\ rendered # NoResult /\ editor = NoResult
  /\ rendered.element = "NumberTemplate"
  /\ \E metadata \in {getMetadata(rendered.schema), getMetadataOrEmpty(rendered.schema)} :
       editor' = Rendered(BaseNumberTemplate(rendered.schema, metadata), rendered.schema)
  /\ UNCHANGED <<utilVars, adapter, indexVars, laterVars, jsonSchema, rendered>>

\* the DateTemplate of the Zod templates renders, with either copy of getMetadata
RenderZodDate ==
  /\ adapter = "zod" /\ rendered # NoResult /\ editor = NoResult
  /\ rendered.element = "DateTemplate"
  /\ \E metadata \in {getMetadata(rendered.schema), getMetadataOrEmpty(rendered.schema)} :
       editor' = Rendered(BaseDateTemplate(rendered.schema, metadata), rendered.schema)
  /\ UNCHANGED <<utilVars, adapter, indexVars, laterVars, jsonSchema, rendered>>

\* getMetadata(schema) of utils/metadata.ts, called by a template
CallGetMetadata ==
  /\ adapter = "zod" /\ found = NoResult
  /\ found' = [copy |-> "metadata.ts", value |-> getMetadata(node)]
  /\ UNCHANGED <<utilVars, adapter, errors, path, errorMap, renderVars, laterVars>>

\* getMetadata(schema) of the copy that falls back to {}
CallGetMetadataOrEmpty ==
  /\ adapter = "zod" /\ found = NoResult
  /\ found' = [copy |-> "meta ?? {}", value |-> getMetadataOrEmpty(node)]
  /\ UNCHANGED <<utilVars, adapter, errors, path, errorMap, renderVars, laterVars>>

RenderNext ==
  \/ RenderJsonTemplate \/ RenderZodTemplate
  \/ RenderJsonNumber \/ RenderZodNumber \/ RenderZodDate
  \/ CallGetMetadata \/ CallGetMetadataOrEmpty

RenderSpec == RenderInit /\ [][RenderNext]_vars

\* no lookup and no render has been made
FormQuiet ==
  /\ adapter = "none"
  /\ errors = <<>>
  /\ path = <<>>
  /\ errorMap = <<>>
  /\ found = NoResult
  /\ jsonSchema = NoResult
  /\ rendered = NoResult
  /\ editor = NoResult

\* ------------------------------------------------------------ path accessor
\* The form document and the accessor the core package reads and writes it
\* with (useFormDataAtPath, useArrayTemplate); the templates are its callers.

\* the condition signalled when a path leads through an incompatible container
InvalidPath == [k |-> "invalid-path"]

\* the empty container created for a segment: an array when the segment that
\* indexes it is numeric, an object otherwise
EmptyContainer(segment) == IF IsIndexKey(segment) THEN List(<<>>) ELSE Obj(<<>>)

\* items with absent slots appended until index `i` (one-based) exists
PadTo(items, i) ==
  [j \in 1..(IF i > Len(items) THEN i ELSE Len(items)) |->
     IF j <= Len(items) THEN items[j] ELSE Undefined]

RECURSIVE get(_, _)
\* get(doc, path): the value at the path, absent where nothing is stored
get(document, p) ==
  IF p = <<>> THEN document
  ELSE CASE document.k = "undefined" -> Undefined
         [] document.k = "object" -> get(GetProp(document.entries, Head(p)), Tail(p))
         [] document.k = "array" ->
              IF ~IsIndexKey(Head(p)) THEN InvalidPath
              ELSE IF KeyIndex(Head(p)) > Len(document.items) THEN Undefined
              ELSE get(document.items[KeyIndex(Head(p))], Tail(p))
         [] OTHER -> InvalidPath

RECURSIVE set_keepsContainers(_, _, _)
\* faulty variant: a missing container is not created, the write is dropped
set_keepsContainers(document, p, value) ==
  IF p = <<>> THEN value
  ELSE CASE document.k = "object" ->
              LET child == set_keepsContainers(GetProp(document.entries, Head(p)), Tail(p), value) IN
              IF child = InvalidPath THEN InvalidPath
              ELSE Obj(SetProp(document.entries, Head(p), child))
         [] document.k = "array" ->
              IF ~IsIndexKey(Head(p)) THEN InvalidPath
              ELSE LET i == KeyIndex(Head(p))
                       items == PadTo(document.items, i)
                       child == set_keepsContainers(items[i], Tail(p), value)
                   IN IF child = InvalidPath THEN InvalidPath
                      ELSE List([items EXCEPT ![i] = child])
         [] document.k = "undefined" -> Undefined
         [] OTHER -> InvalidPath

RECURSIVE set(_, _, _)
\* set(doc, path, value): a new document with the value at the path replaced,
\* the containers missing on the way created empty
set(document, p, value) ==
  IF p = <<>> THEN value
  ELSE LET container == IF document.k = "undefined" THEN EmptyContainer(Head(p)) ELSE document IN
       CASE container.k = "object" ->
              LET child == set(GetProp(container.entries, Head(p)), Tail(p), value) IN
              IF child = InvalidPath THEN InvalidPath
              ELSE Obj(SetProp(container.entries, Head(p), child))
         [] container.k = "array" ->
              IF ~IsIndexKey(Head(p)) THEN InvalidPath
              ELSE LET i == KeyIndex(Head(p))
                       items == PadTo(container.items, i)
                       child == set(items[i], Tail(p), value)
                   IN IF child = InvalidPath THEN InvalidPath
                      ELSE List([items EXCEPT ![i] = child])
         [] OTHER -> InvalidPath

\* the segments paths are made of, the values written and the documents held
Segments == {"a", "0", "1"}

DocumentPaths == SeqsUpTo(Segments, MaxSegments)

WrittenValues == {Str("v"), Null, Undefined, List(<<>>), Obj(<<>>)}

RECURSIVE DocumentsUpTo(_)
DocumentsUpTo(n) ==
  IF n = 0 THEN {Str("x"), Null, Undefined}
  ELSE LET inner == DocumentsUpTo(n - 1) IN
       inner \cup {Obj(<<>>), List(<<>>)}
             \cup {Obj(<<<<"a", c>>>>) : c \in inner}
             \cup {List(<<c>>) : c \in inner}

Documents == DocumentsUpTo(MaxSegments)

AccessInit ==
  /\ UtilIdle
  /\ FormQuiet
  /\ UiIdle
  /\ doc \in Documents
  /\ op \in {[name |-> "none", path |-> p, value |-> v, before |-> doc, read |-> NoResult] :
               p \in DocumentPaths, v \in WrittenValues}
  /\ tally = [initial |-> 0, adds |-> 0, removes |-> 0]

\* setValueAtPath(value) of useFormDataAtPath(path)
SetValueAtPath ==
  /\ op.name = "none"
  /\ LET written == set(doc, op.path, op.value) IN
       IF written = InvalidPath
         THEN /\ op' = [op EXCEPT !.name = "invalid"]
              /\ doc' = doc
         ELSE /\ op' = [op EXCEPT !.name = "set"]
              /\ doc' = written
  /\ UNCHANGED <<utilVars, adapter, indexVars, renderVars, uiVars, tally>>

\* valueAtPath of useFormDataAtPath(path) on the next render
GetValueAtPath ==
  /\ op.name = "set"
  /\ op' = [op EXCEPT !.name = "get", !.read = get(doc, op.path)]
  /\ UNCHANGED <<utilVars, adapter, indexVars, renderVars, uiVars, doc, tally>>

AccessNext == SetValueAtPath \/ GetValueAtPath

AccessSpec == AccessInit /\ [][AccessNext]_vars

\* ---------------------------------------------------------- array templates
\* useArrayTemplate(path, factory, defaultValue) and the SimpleArrayTemplate
\* that calls it with generateInitialData of the element schema as the factory.

\* moveItem: the element at `index` (zero-based) changes places with its
\* neighbour in the direction given; nothing moves at either boundary
moveItem_shifts(items, index, direction) ==
  LET target == IF direction = "up" THEN index - 1 ELSE index + 1 IN
  IF index < 0 \/ index >= Len(items) \/ target < 0 \/ target >= Len(items)
    THEN items
    ELSE [items EXCEPT ![target + 1] = items[index + 1]]

moveItem(items, index, direction) ==
  LET target == IF direction = "up" THEN index - 1 ELSE index + 1 IN
  IF index < 0 \/ index >= Len(items) \/ target < 0 \/ target >= Len(items)
    THEN items
    ELSE [items EXCEPT ![index + 1] = items[target + 1], ![target + 1] = items[index + 1]]

\* faulty variant: the slot is emptied, the later elements stay where they are
removeItem_leavesHole(items, index) ==
  IF index < 0 \/ index >= Len(items) THEN items
  ELSE [items EXCEPT ![index + 1] = Undefined]

\* removeItem: the element at `index` is deleted, the later ones move up
removeItem(items, index) ==
  IF index < 0 \/ index >= Len(items) THEN items
  ELSE SubSeq(items, 1, index) \o SubSeq(items, index + 2, Len(items))

\* addItem: the factory's result is appended
addItem(items, made) == Append(items, made)

\* the path the array template was rendered at
ArrayPath == <<"a">>

\* const elementSchema = unwrappedSchema._zod.def.element
ElementSchema(schema) == unwrapSchema(schema).element

\* valueAtPath of useArrayTemplate(path, factory, []): the default where
\* nothing is stored
ArrayAtPath(document) ==
  LET valueAtPath == get(document, ArrayPath) IN
  IF valueAtPath = Undefined THEN <<>> ELSE valueAtPath.items

ElementSchemas ==
  {Scalar("string"), StringDefaultD, StringDefaultThrows, ArrayOf(Scalar("string"), <<>>)}

ArraySchemas ==
  {ArrayOf(e, <<>>) : e \in ElementSchemas}
    \cup {Wrapper("optional", ArrayOf(e, <<>>)) : e \in ElementSchemas}

StoredItems == SeqsUpTo({Str("x"), Str("y")}, MaxItems)

ArrayInit ==
  /\ node \in ArraySchemas
  /\ NoCall
  /\ FormQuiet
  /\ UiIdle
  /\ doc \in {Obj(<<>>)} \cup {Obj(<<<<"a", List(items)>>>>) : items \in StoredItems}
  /\ op = [name |-> "none"]
  /\ tally = [initial |-> Len(ArrayAtPath(doc)), adds |-> 0, removes |-> 0]

\* onClick={addItem}
AddItem ==
  /\ tally.adds < MaxAdds
  /\ LET made == generateInitialData(ElementSchema(node)) IN
       IF made = Throw
         THEN /\ op' = [name |-> "addItem threw", before |-> ArrayAtPath(doc)]
              /\ UNCHANGED <<doc, tally>>
         ELSE /\ doc' = set(doc, ArrayPath, List(addItem(ArrayAtPath(doc), made)))
              /\ op' = [name |-> "addItem", before |-> ArrayAtPath(doc), made |-> made]
              /\ tally' = [tally EXCEPT !.adds = @ + 1]
  /\ UNCHANGED <<utilVars, adapter, indexVars, renderVars, uiVars>>

\* onClick={() => removeItem(index)}: one Remove button per item rendered
RemoveItem ==
  /\ \E index \in 0..(Len(ArrayAtPath(doc)) - 1) :
       /\ doc' = set(doc, ArrayPath, List(removeItem(ArrayAtPath(doc), index)))
       /\ op' = [name |-> "removeItem", before |-> ArrayAtPath(doc), index |-> index]
       /\ tally' = [tally EXCEPT !.removes = @ + 1]
  /\ UNCHANGED <<utilVars, adapter, indexVars, renderVars, uiVars>>

\* onClick={() => moveItem(index, 'up')}, disabled={index === 0}, and
\* onClick={() => moveItem(index, 'down')}, disabled={index === valueAtPath.length - 1}
MoveItem ==
  /\ \E index \in 0..(Len(ArrayAtPath(doc)) - 1), direction \in {"up", "down"} :
       /\ index # (IF direction = "up" THEN 0 ELSE Len(ArrayAtPath(doc)) - 1)
       /\ doc' = set(doc, ArrayPath, List(moveItem(ArrayAtPath(doc), index, direction)))
       /\ op' = [name |-> "moveItem", before |-> ArrayAtPath(doc),
                 index |-> index, direction |-> direction]
  /\ UNCHANGED <<utilVars, adapter, indexVars, renderVars, uiVars, tally>>

ArrayNext == AddItem \/ RemoveItem \/ MoveItem

ArraySpec == ArrayInit /\ [][ArrayNext]_vars

\* moveItem as useArrayTemplate returns it, called with any index of the array
\* and either direction
MoveInit ==
  /\ UtilIdle
  /\ FormQuiet
  /\ UiIdle
  /\ \E items \in SeqsUpTo({Str("x"), Str("y")}, MaxItems + 1) :
       /\ doc = Obj(<<<<"a", List(items)>>>>)
       /\ op \in {[name |-> "none", index |-> index, direction |-> direction] :
                    index \in 0..(Len(items) - 1), direction \in {"up", "down"}}
  /\ tally = [initial |-> 0, adds |-> 0, removes |-> 0]

CallMoveItem ==
  /\ op.name = "none"
  /\ doc' = set(doc, ArrayPath, List(moveItem(ArrayAtPath(doc), op.index, op.direction)))
  /\ op' = [name |-> "moveItem", before |-> ArrayAtPath(doc),
            index |-> op.index, direction |-> op.direction]
  /\ UNCHANGED <<utilVars, adapter, indexVars, renderVars, uiVars, tally>>

MoveNext == CallMoveItem

MoveSpec == MoveInit /\ [][MoveNext]_vars

\* ----------------------------------------------------------- object template
\* SimpleObjectTemplate: the Add and Remove buttons of an optional object

\* the path the object template was rendered at
ObjectPath == <<"a">>

ObjectSchemas == {s \in Schemas : Acyclic(s) /\ unwrapSchema(s).type = "object"}

ObjectInit ==
  /\ node \in ObjectSchemas
  /\ NoCall
  /\ FormQuiet
  /\ UiIdle
  /\ doc \in {Obj(<<>>), Obj(<<<<"a", Obj(<<>>)>>>>)}
  /\ op \in {[name |-> "none", readonly |-> readonly] : readonly \in BOOLEAN}
  /\ tally = [initial |-> 0, adds |-> 0, removes |-> 0]

\* onClick of "+ Add": setValueAtPath(generateInitialData(schema))
ClickAdd ==
  /\ ~isRequired(node) /\ get(doc, ObjectPath) = Undefined /\ ~op.readonly
  /\ LET initialObject == generateInitialData(node) IN
       IF initialObject = Throw
         THEN /\ op' = [op EXCEPT !.name = "Add threw"]
              /\ doc' = doc
         ELSE /\ op' = [op EXCEPT !.name = "Add"]
              /\ doc' = set(doc, ObjectPath, initialObject)
  /\ UNCHANGED <<utilVars, adapter, indexVars, renderVars, uiVars, tally>>

\* onClick of "Remove": setValueAtPath(undefined)
ClickRemove ==
  /\ ~isRequired(node) /\ get(doc, ObjectPath) # Undefined /\ ~op.readonly
  /\ op' = [op EXCEPT !.name = "Remove"]
  /\ doc' = set(doc, ObjectPath, Undefined)
  /\ UNCHANGED <<utilVars, adapter, indexVars, renderVars, uiVars, tally>>

\* onChange of the SwitchToReadonly checkbox: setReadonly(e.target.checked)
SetReadonly ==
  /\ op' = [op EXCEPT !.name = "setReadonly", !.readonly = ~op.readonly]
  /\ UNCHANGED <<utilVars, adapter, indexVars, renderVars, uiVars, doc, tally>>

ObjectNext == ClickAdd \/ ClickRemove \/ SetReadonly

ObjectSpec == ObjectInit /\ [][ObjectNext]_vars

\* ------------------------------------------------------------ union template
\* ComplexUnionTemplate: selectedOptionIndex, the effect that matches the value
\* against the options, and handleOptionChange

RECURSIVE Parses(_, _)
\* option.safeParse(value).success
Parses(schema, value) ==
  CASE schema.type = "string" -> value.k = "string"
    [] schema.type = "number" -> value.k = "number"
    [] schema.type = "array" ->
         /\ value.k = "array"
         /\ \A i \in 1..Len(value.items) : Parses(schema.element, value.items[i])
    [] schema.type = "object" ->
         /\ value.k = "object"
         /\ \A i \in 1..Len(schema.shape) :
              Parses(schema.shape[i][2], GetProp(value.entries, schema.shape[i][1]))
    [] schema.type = "optional" ->
         IF value.k = "undefined" THEN TRUE ELSE Parses(schema.innerType, value)
    [] schema.type = "nullable" ->
         IF value.k = "null" THEN TRUE ELSE Parses(schema.innerType, value)
    [] OTHER -> FALSE

\* const options = unwrappedSchema._zod.def.options
UnionOptions(schema) == unwrapSchema(schema).options

\* the i of the first `setSelectedOptionIndex(i); break` the effect's loop
\* reaches (zero-based), -1 when the loop ends without one
FirstMatch(options, value) ==
  LET matching == {i \in 1..Len(options) : Parses(options[i], value)} IN
  IF matching = {} THEN -1
  ELSE (CHOOSE i \in matching : \A j \in matching : i <= j) - 1

\* Object.is(a, b) for a stored value and a value just produced: objects and
\* arrays just produced are new references
SameValue(a, b) == a = b /\ a.k \notin {"array", "object"}

\* the path the union template was rendered at
UnionPath == <<"a">>

OptionSchemas ==
  {Scalar("string"), Scalar("number"), ArrayOf(Scalar("string"), <<>>),
   ArrayOf(Scalar("number"), <<>>), Wrapper("optional", Scalar("string"))}

UnionSchemas ==
  LET unions == {UnionOf(o) : o \in SeqsUpTo(OptionSchemas, MaxOptions) \ {<<>>}} IN
  unions \cup {Wrapper("optional", u) : u \in unions}

UnionValues ==
  {Undefined, Null, Str("x"), NumberValue(5), List(<<>>), List(<<Str("x")>>)}

UnionInit ==
  /\ node \in UnionSchemas
  /\ NoCall
  /\ FormQuiet
  /\ doc \in {Obj(<<>>)} \cup {Obj(<<<<"a", v>>>>) : v \in UnionValues}
  /\ op = [name |-> "none"]
  /\ tally = [initial |-> 0, adds |-> 0, removes |-> 0]
  /\ selected = 0
  /\ pending = TRUE
  /\ validationState = "idle"
  /\ stored = Null
  /\ submits = <<>>
  /\ calls = <<>>

\* the effect on [valueAtPath, options]
MatchEffect ==
  /\ pending
  /\ pending' = FALSE
  /\ LET valueAtPath == get(doc, UnionPath)
         i == FirstMatch(UnionOptions(node), valueAtPath)
     IN selected' = IF valueAtPath # Undefined /\ valueAtPath # Null /\ i >= 0
                      THEN i ELSE selected
  /\ UNCHANGED <<utilVars, adapter, indexVars, renderVars, docVars>>
  /\ UNCHANGED <<validationState, stored, submits, calls>>

\* onClick={() => handleOptionChange(index)}
HandleOptionChange ==
  /\ ~pending
  /\ Len(UnionOptions(node)) > 1
  /\ \E optionIndex \in 0..(Len(UnionOptions(node)) - 1) :
       LET newValue == generateInitialData(UnionOptions(node)[optionIndex + 1]) IN
       /\ selected' = optionIndex
       /\ doc' = set(doc, UnionPath, newValue)
       /\ pending' = ~SameValue(get(doc, UnionPath), newValue)
       /\ op' = [name |-> "select", index |-> optionIndex, value |-> newValue]
  /\ UNCHANGED <<utilVars, adapter, indexVars, renderVars, tally>>
  /\ UNCHANGED <<validationState, stored, submits, calls>>

\* the template of the rendered option writes a value the user entered, null
\* for a number input left empty or holding no number
EditValue ==
  /\ ~pending
  /\ \E entered \in UnionValues :
       /\ doc' = set(doc, UnionPath, entered)
       /\ pending' = ~SameValue(get(doc, UnionPath), entered)
       /\ op' = [name |-> "edit", value |-> entered]
  /\ UNCHANGED <<utilVars, adapter, indexVars, renderVars, tally>>
  /\ UNCHANGED <<selected, validationState, stored, submits, calls>>

UnionNext == MatchEffect \/ HandleOptionChange \/ EditValue

UnionSpec == UnionInit /\ [][UnionNext]_vars

\* ---------------------------------------------------------------- form root
\* BaseFormRoot of both template sets: handleSubmit, validationState and the
\* errors it stores. The form's schema is an object with the required string
\* properties "a" and "b"; the Zod schema also has an asynchronous refinement
\* that throws on the value "boom".

Success == [k |-> "success"]
Failure(issues) == [k |-> "failure", issues |-> issues]

RequiredProperties == <<"a", "b">>

\* the required properties formData lacks, in schema order
MissingProperties(formData) ==
  SelectSeq(RequiredProperties, LAMBDA key : GetProp(formData.entries, key) = Undefined)

\* await z.safeParseAsync(schema, formData)
ZodValidate(formData) ==
  LET missing == MissingProperties(formData) IN
  IF GetProp(formData.entries, "a") = Str("boom") THEN Throw
  ELSE IF missing = <<>> THEN Success
  ELSE Failure([i \in 1..Len(missing) |-> ZodIssue(<<StringKey(<<missing[i]>>)>>)])

\* validate(formData) of the compiled Ajv validator, with validate.errors
AjvValidate(formData) ==
  LET missing == MissingProperties(formData) IN
  IF missing = <<>> THEN Success
  ELSE Failure([i \in 1..Len(missing) |-> RequiredError(<<>>, <<missing[i]>>)])

Validate(package, formData) ==
  IF package = "zod" THEN ZodValidate(formData) ELSE AjvValidate(formData)

\* faulty variant: the issues of a failed validation are not stored
ErrorsAfter_keepsOld(outcome, before) ==
  IF outcome.k = "success" THEN Null ELSE before

\* state.errors after handleSubmit: setErrors(null), setErrors(issues), or
\* no setErrors at all when the validation threw
ErrorsAfter(outcome, before) ==
  CASE outcome.k = "success" -> Null
    [] outcome.k = "failure" -> List(outcome.issues)
    [] OTHER -> before

\* the catch of the Zod root is entered: the validation threw, or the callback
\* invoked did
Caught(outcome, threw) ==
  IF outcome = Throw THEN TRUE ELSE threw

\* validationState after handleSubmit; the Zod root's catch also covers the
\* callback
StateAfter(outcome, caught) ==
  IF outcome.k = "success" /\ ~caught THEN "valid" ELSE "invalid"

\* the callback handleSubmit invokes for submit `id`
CallsAfter(outcome, id, threw) ==
  CASE outcome.k = "success" ->
         Append(calls, [id |-> id, callback |-> "onSubmit", threw |-> threw])
    [] outcome.k = "failure" ->
         Append(calls, [id |-> id, callback |-> "onError", threw |-> threw])
    [] OTHER -> calls

FormDatas ==
  {Obj(<<>>), Obj(<<<<"a", Str("x")>>>>), Obj(<<<<"a", Str("x")>>, <<"b", Str("x")>>>>),
   Obj(<<<<"a", Str("boom")>>, <<"b", Str("x")>>>>)}

SubmitInit ==
  /\ UtilIdle
  /\ adapter \in {"json-schema", "zod"}
  /\ errors = <<>>
  /\ path = <<>>
  /\ errorMap = <<>>
  /\ found = NoResult
  /\ jsonSchema = NoResult
  /\ rendered = NoResult
  /\ editor = NoResult
  /\ doc \in FormDatas
  /\ op = [name |-> "none"]
  /\ tally = [initial |-> 0, adds |-> 0, removes |-> 0]
  /\ UiIdle

\* a template writes the form data
EditForm ==
  /\ \E formData \in FormDatas : doc' = formData
  /\ op' = [name |-> "edit"]
  /\ UNCHANGED <<utilVars, adapter, indexVars, renderVars, tally, uiVars>>

\* handleSubmit of the JSON Schema root: validation and callback in one go
SubmitJson ==
  /\ adapter = "json-schema"
  /\ Len(submits) < MaxSubmits
  /\ LET id == Len(submits) + 1
         outcome == AjvValidate(doc)
     IN \E threw \in BOOLEAN :
          /\ submits' = Append(submits, [data |-> doc, stage |-> "settled"])
          /\ validationState' = StateAfter(outcome, FALSE)
          /\ stored' = ErrorsAfter(outcome, stored)
          /\ calls' = CallsAfter(outcome, id, threw)
          /\ op' = [name |-> "settled", id |-> id, outcome |-> outcome, before |-> stored]
  /\ UNCHANGED <<utilVars, adapter, indexVars, renderVars, doc, tally, selected, pending>>

\* handleSubmit of the Zod root up to its await: the formData of this render
\* goes to safeParseAsync
SubmitZod ==
  /\ adapter = "zod"
  /\ Len(submits) < MaxSubmits
  /\ submits' = Append(submits, [data |-> doc, stage |-> "pending"])
  /\ op' = [name |-> "submit", id |-> Len(submits) + 1]
  /\ UNCHANGED <<utilVars, adapter, indexVars, renderVars, doc, tally>>
  /\ UNCHANGED <<selected, pending, validationState, stored, calls>>

\* handleSubmit of the Zod root after its await: the validation of one of the
\* submits in flight settles
SettleZod ==
  /\ adapter = "zod"
  /\ \E id \in 1..Len(submits), threw \in BOOLEAN :
       LET outcome == ZodValidate(submits[id].data) IN
       /\ submits[id].stage = "pending"
       /\ submits' = [submits EXCEPT ![id].stage = "settled"]
       /\ validationState' = StateAfter(outcome, Caught(outcome, threw))
       /\ stored' = ErrorsAfter(outcome, stored)
       /\ calls' = CallsAfter(outcome, id, threw)
       /\ log' = IF Caught(outcome, threw)
                  THEN Append(log, "Form validation error:") ELSE log
       /\ op' = [name |-> "settled", id |-> id, outcome |-> outcome, before |-> stored]
  /\ UNCHANGED <<node, fn, pc, stack, ret, result, branch, required, optional>>
  /\ UNCHANGED <<adapter, indexVars, renderVars, doc, tally, selected, pending>>

SubmitNext == EditForm \/ SubmitJson \/ SubmitZod \/ SettleZod

SubmitSpec == SubmitInit /\ [][SubmitNext]_vars

\* --------------------------------------------------------------- useIsRequired
\* the hook of the JSON Schema package that tells a template whether its field
\* is required

NoItems == [k |-> "none"]
ItemSchema(schema) == [k |-> "schema", schema |-> schema]
TupleItems(schemas) == [k |-> "tuple", schemas |-> schemas]

\* a schema with the keywords the hook reads: type, properties (in written
\* order), items (one schema or a list of them) and required
Container(type, properties, items, requiredList) ==
  [type |-> type, ref |-> Absent, properties |-> properties, items |-> items,
   required |-> requiredList]

StringSchema == Container(TypeName("string"), Absent, NoItems, Absent)

\* { $ref: "#/definitions/Missing" } with no such definition
DanglingRef ==
  [type |-> NoType, ref |-> Present("Missing"), properties |-> Absent,
   items |-> NoItems, required |-> Absent]

\* the early return { parentSchema: null, key: null, isTupleItem: false }
NullParent == [k |-> "null"]

\* parseInt(key, 10) for the keys used here, -1 standing for NaN
ParseInt(key) == IF IsIndexKey(key) THEN KeyIndex(key) - 1 ELSE -1

RECURSIVE WalkParent(_, _, _)
\* the loop of getParentSchemaAndKey over path.slice(0, -1); a property that
\* does not exist is handed to resolveSchema as undefined, and reading the type
\* of an undefined currentSchema is a TypeError
WalkParent(currentSchema, keys, variant) ==
  IF keys = <<>> THEN [k |-> "parent", schema |-> currentSchema]
  ELSE IF currentSchema = Undefined THEN Throw
  ELSE
    LET key == Head(keys) IN
    IF currentSchema.type = TypeName("object") /\ currentSchema.properties # Absent
      THEN LET property == IF HasKey(currentSchema.properties[1], key)
                             THEN GetProp(currentSchema.properties[1], key)
                             ELSE Undefined
               propertySchema == resolveSchema(property, variant) IN
           IF propertySchema = Throw THEN Throw
           ELSE WalkParent(propertySchema, Tail(keys), variant)
    ELSE IF currentSchema.type = TypeName("array") /\ currentSchema.items # NoItems
      THEN IF currentSchema.items.k = "tuple"
             THEN LET index == ParseInt(key) IN
                  IF index >= 0 /\ index < Len(currentSchema.items.schemas)
                    THEN LET itemSchema ==
                               resolveSchema(currentSchema.items.schemas[index + 1], variant) IN
                         IF itemSchema = Throw THEN Throw
                         ELSE WalkParent(itemSchema, Tail(keys), variant)
                    ELSE NullParent
             ELSE LET itemSchema == resolveSchema(currentSchema.items.schema, variant) IN
                  IF itemSchema = Throw THEN Throw
                  ELSE WalkParent(itemSchema, Tail(keys), variant)
    ELSE NullParent

\* useIsRequired(path) with state.schema = rootSchema: its return value and its
\* console.error calls
useIsRequired(rootSchema, p, variant) ==
  LET walked == WalkParent(rootSchema, SubSeq(p, 1, Len(p) - 1), variant) IN
  IF walked = Throw
    THEN [value |-> FALSE, diagnostics |-> <<"Error determining if field is required:">>]
  ELSE IF walked = NullParent \/ walked.schema = Undefined
    THEN [value |-> FALSE, diagnostics |-> <<>>]
  ELSE LET parentSchema == walked.schema IN
       [diagnostics |-> <<>>,
        value |->
          IF parentSchema.items.k = "tuple" THEN TRUE
          ELSE IF /\ parentSchema.type = TypeName("object")
                  /\ parentSchema.required # Absent
                  /\ p # <<>>
                  /\ p[Len(p)] # ""
                 THEN Includes(parentSchema.required[1], p[Len(p)])
          ELSE FALSE]

FieldNames == {"a", ""}

PathKeys == FieldNames \cup {"0", "1"}

\* the object, tuple and list schemas whose members are drawn from `members`
ContainersOf(members) ==
  {Container(type, Present(<<<<name, member>>>>), NoItems, requiredList) :
     type \in {TypeName("object"), TypeList(<<"object", "null">>)},
     name \in FieldNames, member \in members,
     requiredList \in {Absent} \cup {Present(<<n>>) : n \in FieldNames}}
  \cup {Container(TypeName("array"), Absent, TupleItems(<<member>>), Absent) : member \in members}
  \cup {Container(TypeName("array"), Absent, ItemSchema(member), Absent) : member \in members}
  \cup {Container(TypeName("object"), Absent, NoItems, Present(<<"a">>))}

MemberSchemas == {StringSchema, DanglingRef} \cup ContainersOf({StringSchema})

RootSchemas == ContainersOf(MemberSchemas)

RequiredInit ==
  /\ UtilIdle
  /\ DocIdle
  /\ UiIdle
  /\ adapter = "json-schema"
  /\ jsonSchema \in RootSchemas
  /\ path \in SeqsUpTo(PathKeys, MaxSegments)
  /\ errors = <<>>
  /\ errorMap = <<>>
  /\ found = NoResult
  /\ rendered = NoResult
  /\ editor = NoResult

\* const required = useIsRequired(path) in a template
CallUseIsRequired ==
  /\ found = NoResult
  /\ \E variant \in ResolveVariants :
       LET hook == useIsRequired(jsonSchema, path, variant) IN
       /\ found' = [value |-> hook.value]
       /\ log' = log \o hook.diagnostics
  /\ UNCHANGED <<node, fn, pc, stack, ret, result, branch, required, optional>>
  /\ UNCHANGED <<adapter, errors, path, errorMap, renderVars, laterVars>>

RequiredNext == CallUseIsRequired

RequiredSpec == RequiredInit /\ [][RequiredNext]_vars

\* =================================================================== claims
RECURSIVE PeelTo(_, _)
\* the outermost layer of a schema whose type is not in `layers`
PeelTo(schema, layers) ==
  IF schema.type \in layers THEN PeelTo(schema.innerType, layers) ELSE schema

RECURSIVE HasLayer(_, _)
\* whether the wrapper chain of an acyclic schema holds a layer of one of `types`
HasLayer(schema, types) ==
  IF schema.type \in types THEN TRUE
  ELSE IF schema.type = "lazy" THEN HasLayer(Getter(schema.getter), types)
  ELSE IF schema.type \in WrapperTypes THEN HasLayer(schema.innerType, types)
  ELSE FALSE

GenReturned == fn = "generateInitialData" /\ pc = "done"

GenEnded == fn = "generateInitialData" /\ pc \in {"done", "thrown"}

\* the first layer that is not nullable/default/prefault/readonly is optional
OptionalByPeel(schema) ==
  PeelTo(schema, {"nullable", "default", "prefault", "readonly"}).type = "optional"

\* the layer getDefaultValue stops at
DeclaredDefaultLayer(schema) ==
  PeelTo(schema, {"optional", "nullable", "readonly", "nonoptional"})

DeclaredDefaultReached(schema) ==
  LET d == DeclaredDefaultLayer(schema) IN
  d.type \in {"default", "prefault"} /\ d.defaultValue.value # Undefined

\* The two models of generateInitialData and unwrapSchema (the operators and the
\* step machine) agree on every acyclic schema.
MachineAgrees ==
  (pc \in {"done", "thrown"} /\ fn \in {"generateInitialData", "unwrapSchema"} /\ Acyclic(node)) =>
    IF fn = "unwrapSchema"
      THEN pc = "done" /\ result = unwrapSchema(node)
      ELSE (IF pc = "done" THEN result ELSE Throw) = generateInitialData(node)

\* The call stack bound is large enough for every acyclic schema.
AcyclicNeverOverflows == Acyclic(node) => pc # "overflow"

\* C1: for every schema node, isRequired(n) is the negation of isOptional(n).
C1_RequiredIsNotOptional ==
  (required # <<>> /\ optional # <<>>) => (required[1] = ~optional[1])

\* C2: isRequired(n) is false exactly when, peeling nullable, default, prefault and
\* readonly layers from the outside, the first other layer is optional.
C2_RequiredByPeel ==
  required # <<>> => (required[1] = ~OptionalByPeel(node))

\* C3 as claimed: a declared default is returned precisely when a default or prefault
\* layer is reachable by peeling only default, prefault, nullable and readonly layers
\* (so a default beneath an optional layer is not used).
C3_DefaultBeneathOptionalUnused ==
  GenReturned =>
    LET d == PeelTo(node, {"nullable", "readonly"}) IN
    IF d.type \in {"default", "prefault"}
      THEN d.defaultValue.value # Undefined =>
             (branch = "default" /\ result = d.defaultValue.value)
      ELSE branch # "default"

\* C3 amended: whenever generateInitialData returns, it returned a declared default
\* precisely when the first layer that is not optional, nullable, readonly or
\* nonoptional is a default or prefault layer whose value is not undefined, and the
\* value returned is that layer's (so optional(default(T, v)) yields v).
C3_DeclaredDefaultReturned ==
  GenReturned =>
    /\ (branch = "default") = DeclaredDefaultReached(node)
    /\ branch = "default" => result = DeclaredDefaultLayer(node).defaultValue.value

C3_Witness ==
  /\ GenReturned
  /\ node.type = "optional"
  /\ node.innerType.type = "default"
  /\ branch = "default"
  /\ result = Str("d")

\* C4: for a lazy reference L whose getter returns m, generateInitialData(L) equals
\* generateInitialData(m).
C4_LazyIsTransparent ==
  (GenEnded /\ node.type = "lazy" /\ Acyclic(node)) =>
    (IF pc = "done" THEN result ELSE Throw) = generateInitialData(Getter(node.getter))

\* C5 as claimed: when no default or prefault layer is reachable by peeling only
\* default, prefault, nullable and readonly layers and isOptional(node) is true,
\* the result is undefined whatever kind is wrapped; a default reachable that way
\* takes precedence over optionality.
C5_OptionalWithoutReachableDefault ==
  (GenReturned /\ isOptional(node)) =>
    LET d == PeelTo(node, {"nullable", "readonly"}) IN
    IF d.type \in {"default", "prefault"}
      THEN d.defaultValue.value # Undefined => result = d.defaultValue.value
      ELSE result = Undefined

\* C5 amended: when generateInitialData returns for a node that is optional, the
\* result is the declared default if getDefaultValue reaches one (peeling optional,
\* nullable, readonly and nonoptional layers, so also beneath the optional layer)
\* and otherwise undefined (never null), whatever kind is wrapped.
C5_OptionalIsAbsent ==
  (GenReturned /\ OptionalByPeel(node)) =>
    IF DeclaredDefaultReached(node)
      THEN result = DeclaredDefaultLayer(node).defaultValue.value
      ELSE result = Undefined /\ result # Null

C5_Witness ==
  /\ GenReturned
  /\ node.type = "optional"
  /\ node.innerType.type \in {"object", "array", "tuple", "enum", "literal"}
  /\ node.innerType = ObjectOf(<<<<"a", StringDefaultD>>>>)
  /\ branch = "optional"
  /\ result = Undefined

\* a required node with no default or prefault layer whose concrete kind is `type`
RequiredNoDefault(schema, type) ==
  /\ Acyclic(schema)
  /\ unwrapSchema(schema).type = type
  /\ ~OptionalByPeel(schema)
  /\ ~HasLayer(schema, {"default", "prefault"})

\* the minimum sizes an array's checks declare
DeclaredMinSizes(checks) ==
  {checks[i].minimum :
     i \in {j \in 1..Len(checks) : checks[j].check \in {"min_length", "min_size"}}}

\* C6: for a required array node with no declared default, the result is a list of
\* exactly n elements, each equal to generateInitialData(element), when a minimum
\* size n is declared, and the empty list when none is.
C6_ArrayMinSize ==
  (GenReturned /\ RequiredNoDefault(node, "array")) =>
    LET a == unwrapSchema(node) IN
    IF DeclaredMinSizes(a.checks) = {}
      THEN result = List(<<>>)
      ELSE \A n \in DeclaredMinSizes(a.checks) :
             /\ result.k = "array"
             /\ Len(result.items) = n
             /\ \A i \in 1..n : result.items[i] = generateInitialData(a.element)

\* what does hold: the list has the length of the first min_size check and is
\* empty for an array without one, whatever minimum .min(n) declared
OnlyMinSizeCheckFills ==
  (GenReturned /\ RequiredNoDefault(node, "array")) =>
    LET a == unwrapSchema(node) IN
    IF HasMinCheck(a.checks)
      THEN /\ result.k = "array"
           /\ Len(result.items) = MinCheck(a.checks).minimum
           /\ \A i \in 1..Len(result.items) :
                result.items[i] = generateInitialData(a.element)
      ELSE result = List(<<>>)

\* z.array(z.string()).min(2) came to the empty list
MinLengthIgnored ==
  /\ GenReturned
  /\ node = ArrayOf(Scalar("string"), <<MinLength(2)>>)
  /\ result = List(<<>>)

RECURSIVE PresentFields(_)
\* the declared fields whose own generateInitialData is not absent, each with it
PresentFields(shape) ==
  IF shape = <<>> THEN <<>>
  ELSE LET v == generateInitialData(Head(shape)[2]) IN
       (IF v # Undefined THEN <<<<Head(shape)[1], v>>>> ELSE <<>>)
         \o PresentFields(Tail(shape))

\* own-property order: integer-like names ascending, then the others as given
EnumerationOrder(entries) ==
  LET present(key) == HasKey(entries, key)
      indexKeys == SelectSeq(IndexKeys, present)
      named(e) == ~IsIndexKey(e[1])
  IN [i \in 1..Len(indexKeys) |-> <<indexKeys[i], GetProp(entries, indexKeys[i])>>]
       \o SelectSeq(entries, named)

\* C7 as claimed: the generated map holds exactly the declared fields whose default
\* is not absent, each bound to it, in declaration order.
C7_FieldsInDeclarationOrder ==
  (GenReturned /\ RequiredNoDefault(node, "object")) =>
    result = Obj(PresentFields(unwrapSchema(node).shape))

\* C7 amended: the generated map holds exactly the declared fields whose default is
\* not absent (null counts as present), each bound to it, in own-property order:
\* integer-like names first in ascending order, then the others in declaration order.
C7_FieldsInEnumerationOrder ==
  (GenReturned /\ RequiredNoDefault(node, "object")) =>
    result = Obj(EnumerationOrder(PresentFields(unwrapSchema(node).shape)))

C7_Witness ==
  /\ GenReturned
  /\ node = ObjectOf(<< <<"b", StringDefaultNull>>, <<"a", Scalar("string")>>,
                        <<"1", StringDefaultD>> >>)
  /\ result = Obj(<< <<"1", Str("d")>>, <<"b", Null>> >>)

\* C8: for an enum node the result is the value bound to the first key in
\* declaration order, whatever the keys.
C8_EnumFirstDeclared ==
  (GenReturned /\ node.type = "enum" /\ node.entries # <<>>) =>
    result = node.entries[1][2]

\* C9: a field whose default producer throws is treated as absent, the enclosing
\* object's generation does not fail and the other fields are synthesized as usual.
C9_ThrowingProducerIsAbsent ==
  (GenEnded /\ node.type = "object" /\ Acyclic(node)) =>
    LET survives(e) == getDefaultValue(e[2]) # Throw IN
    /\ pc = "done"
    /\ result = generateInitialData(ObjectOf(SelectSeq(node.shape, survives)))

\* C10: on an acyclic schema a started generateInitialData or unwrapSchema call
\* either has returned a value or can take its next step.
C10_AcyclicReturnsValue ==
  (fn \in {"generateInitialData", "unwrapSchema"} /\ Acyclic(node)) =>
    (pc = "done" \/ ENABLED Step)

\* On an acyclic schema a started call ends: with a value, or with the exception of
\* a default producer.
AcyclicCallEnds ==
  (pc = "run" /\ Acyclic(node)) ~> (pc \in {"done", "thrown"})

\* ------------------------------------------------------- C11: self-reference
\* the lazy bindings unwrapSchema passes through on its way to the core of a schema
RECURSIVE UnwrapDemands(_)
RECURSIVE EnterDemands(_)

\* The lazy bindings one generateInitialData(schema) call is bound to resolve before
\* it can return, not counting those behind a getter: a declared default or an
\* optional layer returns before unwrapSchema runs; unwrapSchema resolves the lazy
\* layer of the wrapper chain; the switch recurses into the element of an array with
\* a minimum, every field, every tuple item and the first union option.
EnterDemands(schema) ==
  IF DeclaredDefaultReached(schema) \/ OptionalByPeel(schema)
    THEN {}
    ELSE UnwrapDemands(schema)

UnwrapDemands(schema) ==
  CASE schema.type = "lazy" -> {schema.getter}
    [] schema.type \in WrapperTypes \ {"lazy"} -> UnwrapDemands(schema.innerType)
    [] schema.type = "array" ->
         IF HasMinCheck(schema.checks) THEN EnterDemands(schema.element) ELSE {}
    [] schema.type = "object" ->
         UNION {EnterDemands(schema.shape[i][2]) : i \in 1..Len(schema.shape)}
    [] schema.type = "union" ->
         IF schema.options # <<>> THEN EnterDemands(schema.options[1]) ELSE {}
    [] schema.type = "tuple" ->
         UNION {EnterDemands(schema.items[i]) : i \in 1..Len(schema.items)}
    [] OTHER -> {}

RECURSIVE DemandedRefs(_)
\* a binding resolved by unwrapSchema is unwrapped further, whatever layers it holds
DemandedRefs(names) ==
  LET more == names \cup UNION {UnwrapDemands(Getter(n)) : n \in names} IN
  IF more = names THEN names ELSE DemandedRefs(more)

\* generation of the schema comes back to a lazy binding it is still resolving
Unguarded(schema) ==
  \E n \in DemandedRefs(EnterDemands(schema)) :
    n \in DemandedRefs(UnwrapDemands(Getter(n)))

\* a lazy reference to a binding whose schema holds a reference back to it
SelfReferential(schema) ==
  /\ schema.type = "lazy"
  /\ schema.getter \in ReachableRefs(RefsIn(Getter(schema.getter)))

\* C11 (as stated): default generation of a schema that refers to itself through a
\* lazy reference never returns a value.
C11_SelfReferenceNeverReturns ==
  (fn = "generateInitialData" /\ SelfReferential(node)) => pc # "done"

\* C11 (amended): default generation never returns a value when it comes back to a
\* lazy binding without an optional layer or a declared default in between, and then
\* only a throwing default producer ends it before the call stack is exhausted; a
\* self-reference behind an optional layer or a declared default does not exhaust
\* the call stack.
C11_UnguardedSelfReferenceNeverReturns ==
  fn = "generateInitialData" =>
    /\ Unguarded(node) => pc # "done"
    /\ ~Unguarded(node) => pc # "overflow"

C11_Witness ==
  /\ fn = "generateInitialData"
  /\ node = Lazy("Tree")
  /\ Unguarded(node)
  /\ pc = "overflow"

\* ------------------------------------------------------ C12: idempotence
\* C12: on an acyclic node unwrapSchema returns a node that a second unwrapSchema
\* returns unchanged, and whose kind is none of optional, nullable, default,
\* prefault, readonly, nonoptional, lazy.
C12_UnwrapIdempotent ==
  (fn = "unwrapSchema" /\ pc = "done" /\ Acyclic(node)) =>
    /\ result = unwrapSchema(node)
    /\ unwrapSchema(unwrapSchema(node)) = unwrapSchema(node)
    /\ unwrapSchema(result) = result
    /\ result.type \notin
         {"optional", "nullable", "default", "prefault", "readonly", "nonoptional", "lazy"}

\* a lazy reference beneath another layer, resolved to a schema with a layer of its own
C12_Witness ==
  /\ fn = "unwrapSchema" /\ pc = "done" /\ Acyclic(node)
  /\ node.type \in {"optional", "nullable", "default", "prefault", "readonly", "nonoptional"}
  /\ node.innerType.type = "lazy"
  /\ Getter(node.innerType.getter).type \in WrapperTypes
  /\ result.type \in ScalarTypes \cup {"object"}

\* ------------------------------------------------------ C13..C15: lookups
ErrorsLookedUp == adapter = "json-schema" /\ found # NoResult

IssuesLookedUp == adapter = "zod" /\ found # NoResult

CountIn(list, x) == Cardinality({i \in 1..Len(list) : list[i] = x})

RECURSIVE Sum(_)
Sum(numbers) == IF numbers = <<>> THEN 0 ELSE Head(numbers) + Sum(Tail(numbers))

\* C13: the buckets of the error index have pairwise different keys, their sizes
\* add up to the length of the error list, and every error occurs in the buckets
\* together exactly as often as in the list.
C13_BucketsPartitionErrors ==
  ErrorsLookedUp =>
    LET buckets == 1..Len(errorMap) IN
    /\ \A b, c \in buckets : errorMap[b][1] = errorMap[c][1] => b = c
    /\ Sum([b \in buckets |-> Len(errorMap[b][2])]) = Len(errors)
    /\ \A e \in AjvErrors :
         Sum([b \in buckets |-> CountIn(errorMap[b][2], e)]) = CountIn(errors, e)

\* two different errors in one bucket, one of them re-keyed
C13_Witness ==
  /\ ErrorsLookedUp
  /\ Len(errors) = 2 /\ errors[1] # errors[2]
  /\ errors[1].keyword = "required" /\ errors[2].keyword = "type"
  /\ Len(errorMap) = 1 /\ Len(errorMap[1][2]) = 2
  /\ errorMap[1][1] = <<"/", "a">>

\* C14: whatever path is looked up, an error with keyword "required" reported at
\* the instance path of P with missing property k is returned when the path is P
\* followed by k and is not returned when the path is P; an error with another
\* keyword is returned when the path is that of its own instance path.
C14_RequiredIsFiledUnderChild ==
  ErrorsLookedUp =>
    \A i \in 1..Len(errors) :
      \A P \in SeqsUpTo(PropertyNames, MaxPathLen) :
        LET e == errors[i]
            returned == \E j \in 1..Len(found.items) : found.items[j] = e
        IN  InstancePath(P) = e.instancePath =>
              IF e.keyword = "required"
                THEN /\ path = Append(P, e.params.missingProperty) => returned
                     /\ path = P => ~returned
                ELSE path = P => returned

\* C15: a lookup returns a list, empty when the path has no errors, with either
\* package's lookup.
C15_LookupReturnsList ==
  (ErrorsLookedUp \/ IssuesLookedUp) => found.k = "array"

\* Where no property name on the way is the empty string (the key "/" stands for
\* the root and for its property named ""), a "required" error is returned at the
\* child path and not at the parent path.
RequiredIsFiledUnderNamedChild ==
  ErrorsLookedUp =>
    \A i \in 1..Len(errors) :
      \A P \in SeqsUpTo(PropertyNames, MaxPathLen) :
        LET e == errors[i]
            returned == \E j \in 1..Len(found.items) : found.items[j] = e
        IN  (/\ InstancePath(P) = e.instancePath
             /\ e.keyword = "required"
             /\ e.params.missingProperty # <<>>
             /\ \A s \in 1..Len(P) : P[s] # <<>>) =>
              /\ path = Append(P, e.params.missingProperty) => returned
              /\ path = P => ~returned

\* ---------------------------------------------------- C16..C20: dispatch
TemplateKinds ==
  {"String", "Number", "Boolean", "BigInteger", "Date", "Array", "Object",
   "Union", "Tuple", "Enum", "Unsupported"}

\* the TemplateKind an element stands for; the placeholders (the error <div>, the
\* disabled <input> of the JSON Schema package, null of the Zod package) are
\* Unsupported
TemplateKind(r) ==
  CASE r.element = "StringTemplate" -> "String"
    [] r.element = "NumberTemplate" -> "Number"
    [] r.element = "BooleanTemplate" -> "Boolean"
    [] r.element = "BigIntTemplate" -> "BigInteger"
    [] r.element = "DateTemplate" -> "Date"
    [] r.element = "ArrayTemplate" -> "Array"
    [] r.element = "ObjectTemplate" -> "Object"
    [] r.element = "UnionTemplate" -> "Union"
    [] r.element = "TupleTemplate" -> "Tuple"
    [] r.element = "EnumTemplate" -> "Enum"
    [] r.element \in {"div", "input", "null"} -> "Unsupported"
    [] OTHER -> "none"

\* the TemplateKind of a kind of node, in either package
KindOfType(type) ==
  CASE type = "string" -> "String"
    [] type \in {"number", "integer"} -> "Number"
    [] type = "boolean" -> "Boolean"
    [] type = "bigint" -> "BigInteger"
    [] type = "date" -> "Date"
    [] type = "array" -> "Array"
    [] type = "object" -> "Object"
    [] type = "union" -> "Union"
    [] type = "tuple" -> "Tuple"
    [] type = "enum" -> "Enum"
    [] OTHER -> "Unsupported"

JsonRendered == adapter = "json-schema" /\ rendered # NoResult

ZodRendered == adapter = "zod" /\ rendered # NoResult

\* the declared type of the JSON Schema node is an array of type names
JsonTypeIsList == jsonSchema.ref = Absent /\ "list" \in DOMAIN jsonSchema.type

NullCount(types) == Cardinality({i \in 1..Len(types) : types[i] = "null"})

ZodNullCount(options) == Cardinality({i \in 1..Len(options) : options[i] = NullType})

\* C16: a union of exactly two members, one of them null, is dispatched to the
\* TemplateKind of the other member (string, number, integer, boolean, object or
\* array), in either order and in either package.
C16_NullablePairCollapses ==
  /\ (JsonRendered /\ JsonTypeIsList) =>
       LET types == jsonSchema.type.list IN
       (Len(types) = 2 /\ NullCount(types) = 1) =>
         TemplateKind(rendered) = KindOfType(FindNonNull(types))
  /\ (ZodRendered /\ node.type = "union") =>
       LET options == node.options IN
       (Len(options) = 2 /\ ZodNullCount(options) = 1) =>
         \A i \in 1..2 :
           options[i] # NullType => TemplateKind(rendered) = KindOfType(options[i].type)

\* C17: a union of more than two members, or of two members neither of which is
\* null, is dispatched to Union, in either package.
C17_OtherUnionsAreUnion ==
  /\ (JsonRendered /\ JsonTypeIsList) =>
       LET types == jsonSchema.type.list IN
       (Len(types) > 2 \/ (Len(types) = 2 /\ NullCount(types) = 0)) =>
         TemplateKind(rendered) = "Union"
  /\ (ZodRendered /\ node.type = "union") =>
       LET options == node.options IN
       (Len(options) > 2 \/ (Len(options) = 2 /\ ZodNullCount(options) = 0)) =>
         TemplateKind(rendered) = "Union"

\* the template of each kind the Zod RenderTemplate has a case for
ZodTemplateOf(kind) ==
  CASE kind = "string" -> "StringTemplate"
    [] kind = "number" -> "NumberTemplate"
    [] kind = "boolean" -> "BooleanTemplate"
    [] kind = "bigint" -> "BigIntTemplate"
    [] kind = "date" -> "DateTemplate"
    [] kind = "object" -> "ObjectTemplate"
    [] kind = "array" -> "ArrayTemplate"
    [] kind = "enum" -> "EnumTemplate"
    [] kind = "union" -> "UnionTemplate"
    [] kind = "tuple" -> "TupleTemplate"

ZodMappedKinds ==
  {"string", "number", "boolean", "bigint", "date", "object", "array", "enum", "union", "tuple"}

\* C18: when the Zod RenderTemplate returns, the element is the template of the kind
\* of unwrapSchema(node) alone, its schema prop is the node as it was passed, and
\* the node under one more optional, nullable, default, prefault, readonly or
\* nonoptional layer, or behind a lazy reference, gets the same template.
C18_TemplateByCoreKind ==
  (ZodRendered /\ ~UnwrapOverflows(node, {})) =>
    LET kind == unwrapSchema(node).type IN
    /\ kind \in ZodMappedKinds => rendered = Rendered(ZodTemplateOf(kind), node)
    /\ kind \notin ZodMappedKinds => rendered.element = "null"
    /\ \A w \in Wraps({node}) :
         ZodRenderTemplate(w).rendered.element = rendered.element
    /\ \A n \in LazyNames :
         Getter(n) = node => ZodRenderTemplate(Lazy(n)).rendered.element = rendered.element

\* an object behind a lazy reference and two more layers
C18_Witness ==
  /\ ZodRendered
  /\ node = Wrapper("nullable", Lazy("OptObj"))
  /\ rendered = Rendered("ObjectTemplate", node)

\* C19: for an acyclic node dispatch does not throw and selects one TemplateKind of
\* the closed set; a node whose kind has no template is dispatched to Unsupported
\* and a diagnostic is logged.
C19_DispatchIsTotal ==
  /\ (ZodRendered /\ Acyclic(node)) =>
       /\ TemplateKind(rendered) \in TemplateKinds
       /\ unwrapSchema(node).type \notin ZodMappedKinds =>
            TemplateKind(rendered) = "Unsupported" /\ log # <<>>
  /\ (JsonRendered /\ jsonSchema.ref = Absent /\ "list" \notin DOMAIN jsonSchema.type) =>
       /\ TemplateKind(rendered) \in TemplateKinds
       /\ (\/ jsonSchema.type = NoType
           \/ jsonSchema.type.name \notin
                {"string", "number", "integer", "boolean", "object", "array"}) =>
            TemplateKind(rendered) = "Unsupported" /\ log # <<>>

\* the presentation hint the template reads: uiSchema.component
HintOf(r) ==
  IF adapter = "json-schema" THEN r.schema.uiSchema
  ELSE IF "meta" \in DOMAIN r.schema /\ r.schema.meta # Absent
    THEN r.schema.meta[1].uiSchema
  ELSE Absent

\* C20: a hint naming an editor of the node's kind selects that editor, whatever
\* bounds or enumerations the node has.
C20_HintOverridesStructure ==
  editor # NoResult =>
    /\ HintOf(editor) = Present("range") =>
         editor.element \in {"RangeNumberTemplate", "RangeDateTemplate"}
    /\ (HintOf(editor) = Present("datetime") /\ rendered.element = "DateTemplate") =>
         editor.element = "DateTimeInputTemplate"

\* What the templates do: the hint "range" selects the range editor only when the
\* node has both bounds, and is passed over otherwise; "datetime" always selects
\* the date-time editor.
RangeHintNeedsBothBounds ==
  (editor # NoResult /\ HintOf(editor) = Present("range")) =>
    LET core == IF adapter = "zod" THEN unwrapSchema(editor.schema) ELSE editor.schema
        bounds == IF adapter = "zod"
                    THEN IF "bag" \in DOMAIN core
                           THEN <<core.bag.minimum, core.bag.maximum>>
                           ELSE <<Absent, Absent>>
                    ELSE <<core.minimum, core.maximum>>
        both == bounds[1] # Absent /\ bounds[2] # Absent
    IN  editor.element \in {"RangeNumberTemplate", "RangeDateTemplate"} <=> both

\* C21: a value written with set at a valid path is the value get reads back
\* at that path, whatever the document held before and whichever containers
\* the write had to create
C21_GetAfterSet ==
  op.name = "get" => op.read = op.value

\* a write two segments deep into an empty object created the array it lands in
C21_Witness ==
  /\ op.name = "get"
  /\ op.before = Obj(<<>>)
  /\ op.path = <<"a", "1">>
  /\ op.value = Str("v")
  /\ doc = Obj(<<<<"a", List(<<Undefined, Str("v")>>)>>>>)
  /\ op.read = Str("v")

\* a missing container is created as an array for a numeric segment and as an
\* object for any other
C21_ContainerKindFollowsSegment ==
  (op.name \in {"set", "get"} /\ op.path # <<>> /\ op.before = Undefined)
    => doc.k = (IF IsIndexKey(Head(op.path)) THEN "array" ELSE "object")

\* C22: after any sequence of addItem, removeItem and moveItem calls the array
\* is as long as it first was plus the addItem calls minus the removeItem
\* calls; addItem leaves the factory's result last, behind the
\* elements there were, and removeItem(i) leaves the elements before i in place
\* and every later one a slot earlier.
C22_LengthFollowsCalls ==
  LET items == ArrayAtPath(doc) IN
  /\ Len(items) = tally.initial + tally.adds - tally.removes
  /\ op.name = "addItem" =>
       /\ items = op.before \o <<op.made>>
       /\ op.made = generateInitialData(ElementSchema(node))
  /\ op.name = "removeItem" =>
       /\ Len(items) = Len(op.before) - 1
       /\ \A j \in 1..Len(items) :
            items[j] = (IF j <= op.index THEN op.before[j] ELSE op.before[j + 1])

\* the first of two stored elements was removed after one was appended
C22_Witness ==
  /\ op.name = "removeItem"
  /\ op.index = 0
  /\ op.before = <<Str("x"), Str("y"), Str("d")>>
  /\ ArrayAtPath(doc) = <<Str("y"), Str("d")>>
  /\ tally = [initial |-> 2, adds |-> 1, removes |-> 1]

\* C23: moveItem(index, direction) exchanges the element at index with its
\* neighbour in that direction and changes nothing at index 0 moved up or at
\* the last index moved down; the length and the multiset of elements stay.
C23_MoveSwapsNeighbours ==
  op.name = "moveItem" =>
    LET items == ArrayAtPath(doc)
        target == IF op.direction = "up" THEN op.index - 1 ELSE op.index + 1
        atBoundary == target < 0 \/ target >= Len(op.before)
    IN /\ Len(items) = Len(op.before)
       /\ \A j \in 1..Len(items) : CountIn(items, items[j]) = CountIn(op.before, items[j])
       /\ atBoundary => items = op.before
       /\ ~atBoundary =>
            /\ items[op.index + 1] = op.before[target + 1]
            /\ items[target + 1] = op.before[op.index + 1]
            /\ \A j \in 1..Len(items) :
                 (j # op.index + 1 /\ j # target + 1) => items[j] = op.before[j]

\* the first of two different elements was moved down
C23_Witness ==
  /\ op.name = "moveItem"
  /\ op.index = 0
  /\ op.direction = "down"
  /\ op.before = <<Str("x"), Str("y")>>
  /\ ArrayAtPath(doc) = <<Str("y"), Str("x")>>

\* the last element was moved down and the array stayed as it was
C23_BoundaryWitness ==
  /\ op.name = "moveItem"
  /\ op.index = Len(op.before) - 1
  /\ op.direction = "down"
  /\ Len(op.before) = 2
  /\ ArrayAtPath(doc) = op.before

\* C24: getMetadata returns an object for every schema, {} when the schema has
\* no meta method and {} when meta() returns undefined; it never returns
\* undefined or null.
C24_MetadataIsObject ==
  (adapter = "zod" /\ found # NoResult) => found.value # Absent

\* the copy that ends in `meta ?? {}` does return an object for every schema
MetadataOrEmptyIsObject ==
  (adapter = "zod" /\ found # NoResult /\ found.copy = "meta ?? {}") =>
    /\ found.value # Absent
    /\ ("meta" \notin DOMAIN node \/ node.meta = Absent) =>
         found.value = Present(Metadata(Absent))

\* C25: after Add is activated on an absent optional object field of an
\* editable form, the value at the path is present and is an object.
C25_AddInitializesObject ==
  op.name = "Add" => get(doc, ObjectPath).k = "object"

\* what Add does store: the result of generateInitialData on the optional
\* schema, which is undefined unless the schema carries a default value
AddStoresInitialData ==
  op.name = "Add" =>
    /\ get(doc, ObjectPath) = generateInitialData(node)
    /\ getDefaultValue(node) = Undefined => get(doc, ObjectPath) = Undefined

\* the option the union template renders once its effect has run
RenderedOption == selected

\* C26: after any selections and edits the union template renders the first
\* option the current value validates against, and the first option of the
\* union when the value validates against none.
C26_RendersFirstMatch ==
  ~pending =>
    LET i == FirstMatch(UnionOptions(node), get(doc, UnionPath)) IN
    RenderedOption = (IF i >= 0 THEN i ELSE 0)

\* what the effect does establish: a value that is neither undefined nor null
\* and validates against some option has its first such option rendered
DefinedMatchIsRendered ==
  LET valueAtPath == get(doc, UnionPath)
      i == FirstMatch(UnionOptions(node), valueAtPath)
  IN (~pending /\ valueAtPath # Undefined /\ valueAtPath # Null /\ i >= 0)
       => RenderedOption = i

\* C27: after the user selected option i the value at the path is
\* generateInitialData(option i), and option i is still the rendered one once
\* the effect has run, as long as the user neither edits nor selects again.
C27_SelectionStays ==
  (op.name = "select" /\ ~pending) =>
    /\ get(doc, UnionPath) = generateInitialData(UnionOptions(node)[op.index + 1])
    /\ RenderedOption = op.index

\* the value a selection stores is generateInitialData of the option selected
SelectionStoresInitialData ==
  op.name = "select" =>
    get(doc, UnionPath) = generateInitialData(UnionOptions(node)[op.index + 1])

\* the calls made for submit `id`
CallsOf(id) == SelectSeq(calls, LAMBDA c : c.id = id)

\* C28: onSubmit is invoked only for a submit whose validation succeeded and
\* onError only for one whose validation failed, at most one of them per
\* submit; while the validation state is "valid" the stored errors are null;
\* right after a failed validation the stored errors are its issue list; when
\* the validation throws no callback is invoked for that submit and the stored
\* errors stay as they were.
C28_SubmitOutcome ==
  /\ \A n \in 1..Len(calls) :
       LET outcome == Validate(adapter, submits[calls[n].id].data) IN
       /\ calls[n].callback = "onSubmit" => outcome.k = "success"
       /\ calls[n].callback = "onError" => outcome.k = "failure"
  /\ \A id \in 1..Len(submits) : Len(CallsOf(id)) <= 1
  /\ validationState = "valid" => stored = Null
  /\ (op.name = "settled" /\ op.outcome.k = "failure") =>
       /\ stored = List(op.outcome.issues)
       /\ op.outcome = Validate(adapter, submits[op.id].data)
  /\ (op.name = "settled" /\ op.outcome = Throw) =>
       /\ CallsOf(op.id) = <<>>
       /\ stored = op.before

\* a failed submit replaced the null of an earlier successful one, and each
\* got its own callback
C28_Witness ==
  /\ op.name = "settled"
  /\ op.id = 2
  /\ op.outcome.k = "failure"
  /\ op.before = Null
  /\ Len(stored.items) = 1
  /\ validationState = "invalid"
  /\ Len(calls) = 2
  /\ calls[1].callback = "onSubmit"
  /\ calls[2].callback = "onError"

\* a Zod validation threw after an earlier one had failed
C28_ThrowWitness ==
  /\ adapter = "zod"
  /\ op.name = "settled"
  /\ op.outcome = Throw
  /\ op.before.k = "array"
  /\ stored = op.before
  /\ Len(calls) = 1

AllSettled == \A id \in 1..Len(submits) : submits[id].stage = "settled"

\* C29: once every Zod submit in flight has settled, in whatever order, the
\* stored errors and the validation state are those of the submit triggered
\* last (stated for submits whose validation and callbacks return).
C29_LastSubmitWins ==
  (/\ adapter = "zod" /\ submits # <<>> /\ AllSettled
   /\ \A n \in 1..Len(calls) : ~calls[n].threw
   /\ \A id \in 1..Len(submits) : ZodValidate(submits[id].data) # Throw)
    => LET outcome == ZodValidate(submits[Len(submits)].data) IN
       /\ validationState = (IF outcome.k = "success" THEN "valid" ELSE "invalid")
       /\ stored = (IF outcome.k = "success" THEN Null ELSE List(outcome.issues))

\* what does hold: the stored errors and the validation state are those of
\* the submit that settled last
LastSettledWins ==
  op.name = "settled" =>
    /\ stored = ErrorsAfter(op.outcome, op.before)
    /\ validationState \in {"valid", "invalid"}
    /\ validationState = "valid" => op.outcome.k = "success"

\* a schema whose type is, or lists, `name`
HasType(schema, name) ==
  \/ schema.type = TypeName(name)
  \/ "list" \in DOMAIN schema.type /\ Includes(schema.type.list, name)

RECURSIVE Reached(_, _)
\* the schema the segments lead to from `schema`: through a property of an
\* object, the slot of a tuple, the item schema of a list; NoResult when the
\* segments lead nowhere or a reference does not resolve
Reached(schema, keys) ==
  IF schema.ref # Absent THEN NoResult
  ELSE IF keys = <<>> THEN schema
  ELSE IF HasType(schema, "object") /\ schema.properties # Absent
    THEN IF HasKey(schema.properties[1], Head(keys))
           THEN Reached(GetProp(schema.properties[1], Head(keys)), Tail(keys))
           ELSE NoResult
  ELSE IF HasType(schema, "array") /\ schema.items.k = "tuple"
    THEN IF ParseInt(Head(keys)) >= 0 /\ ParseInt(Head(keys)) < Len(schema.items.schemas)
           THEN Reached(schema.items.schemas[ParseInt(Head(keys)) + 1], Tail(keys))
           ELSE NoResult
  ELSE IF HasType(schema, "array") /\ schema.items.k = "schema"
    THEN Reached(schema.items.schema, Tail(keys))
  ELSE NoResult

\* the field at the path is a slot of a tuple, or a property its object lists
\* as required
RequiredByParent(rootSchema, p) ==
  /\ p # <<>>
  /\ LET parent == Reached(rootSchema, SubSeq(p, 1, Len(p) - 1)) IN
     /\ parent # NoResult
     /\ \/ HasType(parent, "array") /\ parent.items.k = "tuple"
        \/ /\ HasType(parent, "object")
           /\ parent.required # Absent
           /\ Includes(parent.required[1], p[Len(p)])

\* C30: useIsRequired(path) returns true exactly when the schema reached by
\* walking all but the last segment is a tuple-typed array or an object whose
\* required list contains the last segment, and false in every other case.
C30_RequiredExactlyByParent ==
  (adapter = "json-schema" /\ found # NoResult /\ path # <<>>) =>
    (found.value <=> RequiredByParent(jsonSchema, path))

\* a parent's type is one name, never a list of names
RECURSIVE PlainlyTyped(_, _)
PlainlyTyped(schema, keys) ==
  /\ "list" \notin DOMAIN schema.type
  /\ (keys # <<>> /\ Reached(schema, <<Head(keys)>>) # NoResult) =>
       PlainlyTyped(Reached(schema, <<Head(keys)>>), Tail(keys))

\* the hook agrees with the claim where every schema on the way has a single
\* type name and the last segment is not the empty string
RequiredByPlainParent ==
  (/\ adapter = "json-schema" /\ found # NoResult /\ path # <<>>
   /\ path[Len(path)] # ""
   /\ PlainlyTyped(jsonSchema, SubSeq(path, 1, Len(path) - 1)))
    => (found.value <=> RequiredByParent(jsonSchema, path))

====
